---------------------------- MODULE Spec2Model ----------------------------
(***************************************************************************)
(* Multi-provider event orchestration of calendso: EventManager.create and *)
(* EventManager.update (lib/events/EventManager.ts, here                   *)
(* src/unnamed/part_002) on top of calendarClient.createEvent/updateEvent  *)
(* (src/lib/calendarClient.ts).                                            *)
(*                                                                         *)
(* One booking request is in progress at a time.  A request runs through   *)
(* the coordinator's stages; every provider call, persistence call and     *)
(* mail send is a suspension point whose answer (success or error) is      *)
(* chosen by the environment.                                              *)
(***************************************************************************)
EXTENDS Integers, Sequences, FiniteSets, TLC

(***************************************************************************)
(* Absent values.  JavaScript distinguishes undefined from null; both are  *)
(* falsy.                                                                  *)
(***************************************************************************)
Undefined == "<undefined>"
Null == "<null>"

Truthy(s) == s # Undefined /\ s # Null /\ s # ""

(***************************************************************************)
(* String helpers, computed on the characters.                             *)
(***************************************************************************)
endsWith(s, suffix) ==
    /\ Len(s) >= Len(suffix)
    /\ SubSeq(s, Len(s) - Len(suffix) + 1, Len(s)) = suffix

includes(s, part) ==
    \E i \in 1..(Len(s) - Len(part) + 1) : SubSeq(s, i, i + Len(part) - 1) = part

\* String.prototype.replace with a string pattern: the first occurrence only.
replace(s, pattern, by) ==
    IF includes(s, pattern)
    THEN LET i == CHOOSE k \in 1..(Len(s) - Len(pattern) + 1) :
                    /\ SubSeq(s, k, k + Len(pattern) - 1) = pattern
                    /\ \A j \in 1..(k - 1) : SubSeq(s, j, j + Len(pattern) - 1) # pattern
         IN SubSeq(s, 1, i - 1) \o by \o SubSeq(s, i + Len(pattern), Len(s))
    ELSE s

RECURSIVE SelectSeqBy(_, _)
\* Array.prototype.filter on a sequence of strings, keeping the order.
SelectSeqBy(seq, keep) ==
    IF seq = <<>> THEN <<>>
    ELSE (IF Head(seq) \in keep THEN <<Head(seq)>> ELSE <<>>) \o SelectSeqBy(Tail(seq), keep)

Range(seq) == {seq[i] : i \in 1..Len(seq)}

(***************************************************************************)
(* Bounds and input pools.                                                 *)
(***************************************************************************)
MaxCreds == 2

\* Credential types a user may hold: two calendar providers with an adapter,
\* one calendar type without an adapter (a retired integration), one video
\* provider.
CredentialTypePool == {"google_calendar", "office365_calendar", "exchange_calendar", "zoom_video"}

RECURSIVE SeqsUpTo(_, _)
SeqsUpTo(S, n) ==
    IF n = 0 THEN {<<>>}
    ELSE SeqsUpTo(S, n - 1) \cup {Append(q, x) : q \in {p \in SeqsUpTo(S, n - 1) : Len(p) = n - 1}, x \in S}

CredentialSets == SeqsUpTo(CredentialTypePool, MaxCreds)

LocationPool == {Null, "Office", "integrations:google:meet", "integrations:zoom", "integrations:daily"}

\* The uid of the one booking the store may hold, and a uid it never holds.
StoredUid == "booking-1"
RescheduleUidPool == {"", StoredUid, "booking-2"}


(***************************************************************************)
(* Data model.                                                             *)
(***************************************************************************)
\* Event: what a provider answers to a create or update (EventManager.ts Event).
NoEvent ==
    [present |-> FALSE, id |-> Undefined, name |-> Undefined,
     disableConfirmationEmail |-> FALSE, hangoutLink |-> Undefined]

\* VideoCallData, absent.
NoVideoCallData ==
    [present |-> FALSE, type |-> Undefined, id |-> Undefined, password |-> Undefined, url |-> Undefined]

\* parser.getUid(): the uid CalEventParser derives from the event.
EventUid == "event-uid"

EventResult(type, success, createdEvent, updatedEvent, videoCallData) ==
    [type |-> type, success |-> success, uid |-> EventUid,
     createdEvent |-> createdEvent, updatedEvent |-> updatedEvent,
     videoCallData |-> videoCallData]

PartialReference(type, uid, meetingId, meetingPassword, meetingUrl) ==
    [type |-> type, uid |-> uid, meetingId |-> meetingId,
     meetingPassword |-> meetingPassword, meetingUrl |-> meetingUrl]

\* References a stored booking may own (a row read back from the store holds
\* null, never undefined, in an empty column).
GoogleRef == PartialReference("google_calendar", "google-old", Null, Null, Null)
OfficeRef == PartialReference("office365_calendar", "o365-old", Null, Null, Null)
ExchangeRef == PartialReference("exchange_calendar", "exchange-old", Null, Null, Null)
ZoomRef == PartialReference("zoom_video", "zoom-old", "zoom-old", "secret", "https://zoom/old")
ZoomRefNoPassword == PartialReference("zoom_video", "zoom-old", "zoom-old", Null, "https://zoom/old")
\* The reference EventManager.create returns for a failed provider call.
GoogleRefNoUid == PartialReference("google_calendar", "", Null, Null, Null)

StoredReferenceSets ==
    { <<>>, <<GoogleRef, ZoomRef>>, <<OfficeRef, ZoomRefNoPassword>>,
      <<ExchangeRef, GoogleRef>>, <<GoogleRefNoUid>>, <<GoogleRef, OfficeRef>> }

(***************************************************************************)
(* Provider registry (calendarClient.ts).                                  *)
(***************************************************************************)
AdapterTypes == {"google_calendar", "office365_calendar", "caldav_calendar", "apple_calendar"}

calendars_Suffix(withCredentials) ==
    SelectSeqBy(withCredentials, {t \in Range(withCredentials) : endsWith(t, "_calendar")})

\* calendars(withCredentials): the adapters of the credentials that have one.
calendars(withCredentials) == SelectSeqBy(withCredentials, AdapterTypes)

(***************************************************************************)
(* What the providers answer.                                              *)
(***************************************************************************)
\* The event a calendar adapter's createEvent resolves with.
AdapterCreatedEvent(type, event) ==
    IF type = "office365_calendar"
    THEN [NoEvent EXCEPT !.present = TRUE, !.id = "o365-new", !.disableConfirmationEmail = TRUE]
    ELSE IF type = "google_calendar"
    THEN [NoEvent EXCEPT !.present = TRUE, !.id = "google-new",
                         !.hangoutLink = IF event.conferenceData # Undefined
                                            /\ event.location = "integrations:google:meet"
                                         THEN "https://meet/new" ELSE Undefined]
    ELSE [NoEvent EXCEPT !.present = TRUE, !.id = "dav-new"]

\* The value a calendar adapter's updateEvent resolves with: Google answers
\* the event (event?.data, with the hangout link of the conference the event
\* was booked with), Office365 the raw response text.
AdapterUpdatedEvent(type, uid, event) ==
    IF type = "office365_calendar"
    THEN [NoEvent EXCEPT !.present = TRUE]
    ELSE IF type = "google_calendar"
    THEN [NoEvent EXCEPT !.present = TRUE, !.id = uid,
                         !.hangoutLink = IF event.location = "integrations:google:meet"
                                         THEN "https://meet/old" ELSE Undefined]
    ELSE [NoEvent EXCEPT !.present = TRUE, !.id = uid]

(***************************************************************************)
(* EventManager: the pure parts.                                           *)
(***************************************************************************)
\* LocationType (lib/location.ts): the recognised integration sentinels.
LocationType == {"integrations:google:meet", "integrations:zoom", "integrations:daily"}

\* FAKE_DAILY_CREDENTIAL's type (DailyVideoApiAdapter.ts).
FAKE_DAILY_CREDENTIAL == "daily_video"

\* uuidv5(location, uuidv5.URL): a name-based id, a function of the location.
uuidv5(location) == "uuid5:" \o location

isDedicatedIntegration_Integration(location) == includes(location, "integrations:")

isDedicatedIntegration(location) ==
    location = "integrations:zoom" \/ location = "integrations:daily"

\* The coordinator's decision: evt.location ? isDedicatedIntegration(evt.location) : null
IsDedicated(event) ==
    IF Truthy(event.location) THEN isDedicatedIntegration(event.location) ELSE FALSE

\* The CalendarEvent of a request, as the booking flow hands it over.
NewCalendarEvent(location) ==
    [location |-> location, conferenceData |-> Undefined,
     additionInformation |-> Undefined, videoCallData |-> NoVideoCallData]

processLocation_Chained(event) ==
    IF Truthy(event.location) /\ includes(event.location, "integration")
       /\ event.location \in LocationType
    THEN [event EXCEPT !.conferenceData =
             IF event.conferenceData = Undefined THEN uuidv5(event.location)
             ELSE uuidv5(event.conferenceData)]
    ELSE event

\* getLocationRequestFromIntegration + the merge of processLocation.
processLocation(event) ==
    IF Truthy(event.location) /\ includes(event.location, "integration")
       /\ event.location \in LocationType
    THEN [event EXCEPT !.conferenceData = uuidv5(event.location)]
    ELSE event

calendarCredentials_All(credentials) == credentials

\* The constructor's split of the credentials.
calendarCredentials(credentials) ==
    SelectSeqBy(credentials, {t \in Range(credentials) : endsWith(t, "_calendar")})

videoCredentials(credentials, hasDailyIntegration) ==
    SelectSeqBy(credentials, {t \in Range(credentials) : endsWith(t, "_video")})
        \o (IF hasDailyIntegration THEN <<FAKE_DAILY_CREDENTIAL>> ELSE <<>>)

\* Array.prototype.find: the first element satisfying the test, or undefined.
getVideoCredential_First(event, videoCreds) ==
    IF videoCreds = <<>> THEN Undefined ELSE videoCreds[1]

getVideoCredential(event, videoCreds) ==
    IF ~Truthy(event.location) THEN Undefined
    ELSE LET integrationName == replace(event.location, "integrations:", "")
             hits == {i \in 1..Len(videoCreds) : includes(videoCreds[i], integrationName)}
         IN IF hits = {} THEN Undefined
            ELSE videoCreds[CHOOSE i \in hits : \A j \in hits : i <= j]

\* booking.references.filter((ref) => ref.type === type)[0], or undefined.
FirstRefOfType(references, type) ==
    LET hits == {i \in 1..Len(references) : references[i].type = type}
    IN IF hits = {} THEN Undefined
       ELSE references[CHOOSE i \in hits : \A j \in hits : i <= j]

HasRefOfType(references, type) == \E i \in 1..Len(references) : references[i].type = type

\* ...[0]?.uid
BookingRefUid(references, type) ==
    IF HasRefOfType(references, type) THEN FirstRefOfType(references, type).uid ELSE Undefined

\* bookingReferenceToVideoCallData for a reference that is there (the caller
\* throws "missing reference" when it is not).  A zoom_video reference is
\* complete when none of its three meeting fields is undefined; ?? "" turns
\* null and undefined into "".
Coalesce(v) == IF v = Undefined \/ v = Null THEN "" ELSE v

bookingReferenceToVideoCallData(reference) ==
    LET isComplete ==
            IF reference.type = "zoom_video"
            THEN /\ reference.meetingId # Undefined
                 /\ reference.meetingPassword # Undefined
                 /\ reference.meetingUrl # Undefined
            ELSE TRUE
    IN IF isComplete
       THEN [present |-> TRUE, type |-> reference.type, id |-> Coalesce(reference.meetingId),
             password |-> Coalesce(reference.meetingPassword), url |-> Coalesce(reference.meetingUrl)]
       ELSE NoVideoCallData

(***************************************************************************)
(* videoClient.createMeeting / updateMeeting: the EventResult of a video   *)
(* provider call.                                                          *)
(***************************************************************************)
NewVideoCallData(type) ==
    [present |-> TRUE, type |-> type, id |-> "meeting-new", password |-> "secret-new",
     url |-> "https://video/new"]

\* A Daily result is identified by its name, every other one by its id.
VideoCreatedEvent(type) ==
    IF type = "daily_video"
    THEN [NoEvent EXCEPT !.present = TRUE, !.name = "daily-new"]
    ELSE [NoEvent EXCEPT !.present = TRUE, !.id = "meeting-new"]

createMeeting(type, ok) ==
    IF ok THEN EventResult(type, TRUE, VideoCreatedEvent(type), NoEvent, NewVideoCallData(type))
    ELSE EventResult(type, FALSE, NoEvent, NoEvent, NoVideoCallData)

\* called: whether a prior reference uid was there to address the provider
\* with; echo: whether the provider's answer carries the meeting data.
updateMeeting(type, called, ok, echo) ==
    IF called /\ ok
    THEN EventResult(type, TRUE, NoEvent, [NoEvent EXCEPT !.present = TRUE],
                     IF echo THEN NewVideoCallData(type) ELSE NoVideoCallData)
    ELSE EventResult(type, IF called THEN FALSE ELSE TRUE, NoEvent, NoEvent, NoVideoCallData)

(***************************************************************************)
(* The references EventManager.create derives from its results.            *)
(***************************************************************************)
ReferenceOfResult(result) ==
    LET uid == IF result.createdEvent.present
               THEN (IF result.type = "daily_video" THEN result.createdEvent.name
                     ELSE result.createdEvent.id)
               ELSE ""
        vcd == result.videoCallData
    IN PartialReference(result.type, uid,
                        IF vcd.present THEN vcd.id ELSE Undefined,
                        IF vcd.present THEN vcd.password ELSE Undefined,
                        IF vcd.present THEN vcd.url ELSE Undefined)

ReferencesOfResults(rs) == [i \in 1..Len(rs) |-> ReferenceOfResult(rs[i])]

\* sendAttendeeMail's test: no results, or no result whose created or updated
\* event disables the confirmation mail.
ResultEvent(result) ==
    IF result.createdEvent.present THEN result.createdEvent ELSE result.updatedEvent

ShouldSendAttendeeMail_Always(rs) == TRUE

ShouldSendAttendeeMail_Succeeded(rs) ==
    /\ \E i \in 1..Len(rs) : rs[i].success
    /\ ~ \E i \in 1..Len(rs) : ResultEvent(rs[i]).disableConfirmationEmail

ShouldSendAttendeeMail(rs) ==
    \/ Len(rs) = 0
    \/ ~ \E i \in 1..Len(rs) : ResultEvent(rs[i]).disableConfirmationEmail

\* The metadata sendAttendeeMail attaches: results[0].createdEvent?.hangoutLink.
AttendeeMailMetadata(rs) ==
    IF Len(rs) > 0 /\ rs[1].createdEvent.present THEN rs[1].createdEvent.hangoutLink ELSE Undefined

(***************************************************************************)
(* State.                                                                  *)
(***************************************************************************)
VARIABLES
    hasDailyIntegration, \* process.env.DAILY_API_KEY is set
    db,                 \* the store: the booking row, its references, its attendees
    req,                \* the request: operation, credentials, location, rescheduleUid
    pc,                 \* the coordinator's stage
    evt,                \* the CalendarEvent, mutated in place during the request
    isDedicated,        \* the dedicated-integration decision
    booking,            \* what prisma.booking.findFirst answered
    tasks,              \* calendarClient.createEvent/updateEvent calls, one per dispatched credential
    video,              \* the video provider call: its credential, and how far it is
    results,            \* Array<EventResult>
    referencesToCreate, \* the references handed back to the caller
    outcome,            \* "none" | "pending" | "returned" | "rejected"
    error,              \* the rejection's message
    deletes,            \* the three deletions of update's cleanup
    calls,              \* provider adapter calls issued in this request, in order
    mails,              \* notification mails of this request, in order
    lookups             \* booking lookups issued in this request

\* The availability aggregator (calendarClient.getBusyCalendarTimes).
VARIABLES
    availReq,           \* its arguments: withCredentials, selectedCalendars
    fan,                \* the getAvailability calls of the fan-out, one per adapter
    aggregate           \* the promise getBusyCalendarTimes returns

coordinatorVars ==
    <<hasDailyIntegration, db, req, pc, evt, isDedicated, booking, tasks, video, results,
      referencesToCreate, outcome, error, deletes, calls, mails, lookups>>

\* The token refresh adapters (googleAuth, o365Auth, zoomAuth) and the adapter
\* operation that uses one.
VARIABLES
    now,                \* the clock, in seconds since the epoch
    key,                \* credential.key of each provider's credential, in memory
    stored,             \* the key of each credential as the credential store holds it
    operation,          \* the adapter operation in progress
    validUntil          \* per provider: when the token of its last successful refresh expires

availabilityVars == <<availReq, fan, aggregate>>

authVars == <<now, key, stored, operation, validUntil>>

\* Two overlapping requests on one credential, each with its own adapter.
VARIABLES
    race                \* per request: its adapter operation and its in-memory key

raceVars == <<race>>

\* The team-invitation request handler (pages/api/teams/[team]/invite).
VARIABLES
    invitation,         \* the request in hand, the handler's position and its response
    teamStore           \* users, memberships and verification requests stored, mails sent

inviteVars == <<invitation, teamStore>>

adapterVars == <<availabilityVars, authVars, raceVars, inviteVars>>

\* What an action of one part leaves alone outside its own part.
besideAvailability == <<coordinatorVars, authVars, raceVars, inviteVars>>
besideAuth == <<coordinatorVars, availabilityVars, raceVars, inviteVars>>
besideRace == <<coordinatorVars, availabilityVars, inviteVars>>
besideInvite == <<coordinatorVars, availabilityVars, authVars, raceVars>>

vars == <<coordinatorVars, adapterVars>>

\* async.mapLimit's limit in updateAllCalendarEvents.
MapLimit == 5

NoSuitableCredentials == "No suitable credentials given for the requested integration name."
NoRescheduleUid == "You called eventManager.update without an rescheduleUid. This should never happen."
BookingNotFound == "booking not found"
MissingReference == "missing reference"
\* calendars([credential])[0] is undefined: reading .createEvent of it throws.
TypeError == "TypeError: Cannot read properties of undefined"
DeleteFailed == "prisma delete failed"

DeleteKinds == {"bookingReference", "attendee", "booking"}

\* The video provider call of a request: "idle" (none), "calling", then
\* "answered" or "failed".
NoVideoCall == [credential |-> Undefined, pc |-> "idle"]

NoBooking == [found |-> FALSE, references |-> <<>>]
NoResult == EventResult(Undefined, FALSE, NoEvent, NoEvent, NoVideoCallData)
NoRequest ==
    [op |-> "none", credentials |-> <<>>, location |-> Null, rescheduleUid |-> ""]

\* The providers with a token refresh adapter in the source.
Providers == {"google_calendar", "office365_calendar", "zoom_video"}

\* The first and the last instant of the clock, in seconds.
Epoch == 1
MaxTime == 3

\* credential.key: the access token (a version number), its expiry as the
\* adapter keeps it, and for Google what the SDK's isTokenExpiring() says.
CredentialKey(access_token, expiry, expiring) ==
    [access_token |-> access_token, expiry |-> expiry, expiring |-> expiring]

NoOperation ==
    [provider |-> Undefined, kind |-> "none", pc |-> "idle", token |-> 0, lifetime |-> 0,
     notExpired |-> FALSE, wasValid |-> FALSE, exchanged |-> FALSE, wrote |-> FALSE,
     refreshFailed |-> FALSE, called |-> FALSE, errored |-> FALSE, value |-> "none",
     refreshed |-> FALSE]

NoAvailabilityRequest == [op |-> "none", credentials |-> <<>>, selectedCalendars |-> <<>>]
NoAggregate == [pc |-> "idle", value |-> <<>>]

InitialStores ==
    {[booking |-> FALSE, references |-> <<>>, attendees |-> FALSE]}
    \cup {[booking |-> TRUE, references |-> r, attendees |-> TRUE] : r \in StoredReferenceSets}

InitCoordinator ==
    /\ hasDailyIntegration \in BOOLEAN
    /\ db \in InitialStores
    /\ req = NoRequest
    /\ pc = "idle"
    /\ evt = NewCalendarEvent(Null)
    /\ isDedicated = FALSE
    /\ booking = NoBooking
    /\ tasks = <<>>
    /\ video = NoVideoCall
    /\ results = <<>>
    /\ referencesToCreate = <<>>
    /\ outcome = "none"
    /\ error = Undefined
    /\ deletes = [k \in DeleteKinds |-> "idle"]
    /\ calls = <<>>
    /\ mails = <<>>
    /\ lookups = 0

InitAvailability ==
    /\ availReq = NoAvailabilityRequest
    /\ fan = <<>>
    /\ aggregate = NoAggregate

\* The two overlapping requests.
Requests == {1, 2}

NoRacer == [operation |-> NoOperation, memory |-> CredentialKey(0, 0, FALSE)]

\* No adapter operation, every token still valid.
InitAuth ==
    /\ now = Epoch
    /\ key = [p \in Providers |-> CredentialKey(0, MaxTime, FALSE)]
    /\ stored = key
    /\ operation = NoOperation
    /\ validUntil = [p \in Providers |-> 0]

\* No request has loaded the credential.
InitRace == race = [r \in Requests |-> NoRacer]

\* The teams, and the one user, the store holds before any invitation.
Teams == {[id |-> 1, name |-> "Team"], [id |-> 3, name |-> Null]}
KnownUser == [username |-> "ann", email |-> "ann@cal.io"]

NoInvitation ==
    [method |-> "none", session |-> [present |-> FALSE, name |-> Null], team |-> 0, usernameOrEmail |-> "",
     sendEmailInvitation |-> FALSE, pc |-> "idle", status |-> 0]

InitInvite ==
    /\ invitation = NoInvitation
    /\ teamStore = [users |-> {KnownUser}, memberships |-> {}, verificationRequests |-> {},
                    emails |-> {}]

Init == InitCoordinator /\ InitAvailability /\ InitAuth /\ InitRace /\ InitInvite

\* Nothing of the previous request is still in flight.
Quiescent ==
    /\ \A k \in 1..Len(tasks) : tasks[k].pc \in {"done", "threw", "queued"}
    /\ \A d \in DeleteKinds : deletes[d] # "pending"

(***************************************************************************)
(* A request arrives: new EventManager(credentials), then create(event) or *)
(* update(event, rescheduleUid).                                           *)
(***************************************************************************)
NewRequest ==
    /\ pc = "idle"
    /\ \E op \in {"create", "update"}, credentials \in CredentialSets, location \in LocationPool,
          rescheduleUid \in RescheduleUidPool :
            /\ op = "create" => rescheduleUid = ""
            /\ req' = [op |-> op, credentials |-> credentials, location |-> location,
                       rescheduleUid |-> rescheduleUid]
            /\ evt' = NewCalendarEvent(location)
    /\ pc' = "locate"
    /\ outcome' = "pending"
    /\ UNCHANGED <<adapterVars, hasDailyIntegration, db, isDedicated, booking, tasks, video, results,
                   referencesToCreate, error, deletes, calls, mails, lookups>>

\* The caller has the request's answer and nothing of the request is in
\* flight any more: its EventManager and event are dropped.
RequestEnds ==
    /\ pc = "done"
    /\ Quiescent
    /\ pc' = "idle"
    /\ req' = NoRequest
    /\ evt' = NewCalendarEvent(Null)
    /\ isDedicated' = FALSE
    /\ booking' = NoBooking
    /\ tasks' = <<>>
    /\ video' = NoVideoCall
    /\ results' = <<>>
    /\ referencesToCreate' = <<>>
    /\ outcome' = "none"
    /\ error' = Undefined
    /\ deletes' = [k \in DeleteKinds |-> "idle"]
    /\ calls' = <<>>
    /\ mails' = <<>>
    /\ lookups' = 0
    /\ UNCHANGED <<adapterVars, hasDailyIntegration, db>>

Reject_Unsettled(message) ==
    /\ outcome' = outcome
    /\ error' = message
    /\ pc' = "done"

Reject_Continues(message) ==
    /\ outcome' = outcome
    /\ error' = message
    /\ pc' = "cleanup"

\* A rejection of the request (a throw in the async function, or a rejected
\* promise it awaits).
Reject(message) ==
    /\ outcome' = "rejected"
    /\ error' = message
    /\ pc' = "done"

\* if (!rescheduleUid) throw ...
MissingRescheduleUid_Never(rescheduleUid) == FALSE

MissingRescheduleUid(rescheduleUid) == ~Truthy(rescheduleUid)

\* if (!booking) throw new Error("booking not found")
BookingMissing_Never(row) == FALSE

BookingMissing(row) == ~row.found

\* processLocation, then (update) the rescheduleUid check and the booking
\* lookup, or (create) the dedicated decision.
Locate ==
    /\ pc = "locate"
    /\ evt' = processLocation(evt)
    /\ IF req.op = "create"
       THEN /\ isDedicated' = IsDedicated(evt')
            /\ pc' = "calendar"
            /\ UNCHANGED <<outcome, error, lookups>>
       ELSE IF MissingRescheduleUid(req.rescheduleUid)
       THEN /\ Reject(NoRescheduleUid)
            /\ UNCHANGED <<isDedicated, lookups>>
       ELSE /\ pc' = "lookup"
            /\ lookups' = lookups + 1
            /\ UNCHANGED <<isDedicated, outcome, error>>
    /\ UNCHANGED <<adapterVars, hasDailyIntegration, db, req, booking, tasks, video, results, referencesToCreate,
                   deletes, calls, mails>>

\* prisma.booking.findFirst({where: {uid}}) with its references.
findFirst(store, uid) ==
    IF store.booking /\ uid = StoredUid
    THEN [found |-> TRUE, references |-> store.references]
    ELSE NoBooking

BookingLookup ==
    /\ pc = "lookup"
    /\ booking' = findFirst(db, req.rescheduleUid)
    /\ IF BookingMissing(booking')
       THEN /\ Reject(BookingNotFound)
            /\ UNCHANGED isDedicated
       ELSE /\ isDedicated' = IsDedicated(evt)
            /\ pc' = "calendar"
            /\ UNCHANGED <<outcome, error>>
    /\ UNCHANGED <<adapterVars, hasDailyIntegration, db, req, evt, tasks, video, results, referencesToCreate,
                   deletes, calls, mails, lookups>>

(***************************************************************************)
(* DISPATCH_CALENDAR: createAllCalendarEvents / updateAllCalendarEvents,   *)
(* and calendarClient.createEvent / updateEvent.                           *)
(***************************************************************************)
\* pc: "queued", "calling" (the provider call is in flight), "mail" (the
\* organizer mail is in flight), "done" (the EventResult is there), "threw".
\* answer: how the provider call ended ("none" while it has not, or when none
\* was made), event: what it resolved with.
Task(credential, taskPc, bookingRefUid, event, result) ==
    [credential |-> credential, pc |-> taskPc, bookingRefUid |-> bookingRefUid,
     answer |-> "none", event |-> event, result |-> result]

\* createEvent / updateEvent up to its first await.  createEvent reads
\* calendars([credential])[0].createEvent, which throws when the credential's
\* type has no adapter; updateEvent does so only when a prior reference uid
\* is there, and otherwise answers at once, without an updated event.
createEventStart(credential) ==
    IF calendars(<<credential>>) = <<>>
    THEN Task(credential, "threw", Undefined, NoEvent, NoResult)
    ELSE Task(credential, "calling", Undefined, NoEvent, NoResult)

updateEventStart_Always(credential, bookingRefUid) ==
    IF calendars(<<credential>>) = <<>>
    THEN Task(credential, "threw", bookingRefUid, NoEvent, NoResult)
    ELSE Task(credential, "calling", bookingRefUid, NoEvent, NoResult)

updateEventStart(credential, bookingRefUid) ==
    IF Truthy(bookingRefUid)
    THEN IF calendars(<<credential>>) = <<>>
         THEN Task(credential, "threw", bookingRefUid, NoEvent, NoResult)
         ELSE Task(credential, "calling", bookingRefUid, NoEvent, NoResult)
    ELSE Task(credential, "done", bookingRefUid, NoEvent,
              EventResult(credential, TRUE, NoEvent, NoEvent, NoVideoCallData))

StartTask(op, credential, references) ==
    IF op = "create" THEN createEventStart(credential)
    ELSE updateEventStart(credential, BookingRefUid(references, credential))

createAllCalendarEvents_All(calendarCreds) == calendarCreds

\* createAllCalendarEvents dispatches the first calendar credential only.
createAllCalendarEvents(calendarCreds) ==
    IF calendarCreds = <<>> THEN <<>> ELSE <<calendarCreds[1]>>

\* updateAllCalendarEvents maps over all of them.
updateAllCalendarEvents(calendarCreds) == calendarCreds

Dispatched(request) ==
    IF request.op = "create"
    THEN createAllCalendarEvents(calendarCredentials(request.credentials))
    ELSE updateAllCalendarEvents(calendarCredentials(request.credentials))

CallRecord(kind, type, op) == [adapter |-> kind, type |-> type, op |-> op]

RECURSIVE CallsOf(_, _)
\* The adapter calls of the tasks that are calling, in task order.
CallsOf(ts, op) ==
    IF ts = <<>> THEN <<>>
    ELSE (IF Head(ts).pc = "calling" THEN <<CallRecord("calendar", Head(ts).credential, op)>> ELSE <<>>)
         \o CallsOf(Tail(ts), op)

Queued(credential) == Task(credential, "queued", Undefined, NoEvent, NoResult)

DispatchCalendar ==
    /\ pc = "calendar"
    /\ LET creds == Dispatched(req)
           started == [k \in 1..Len(creds) |->
                          IF k <= MapLimit THEN StartTask(req.op, creds[k], booking.references)
                          ELSE Queued(creds[k])]
       IN /\ tasks' = started
          /\ calls' = calls \o CallsOf(started, req.op)
          /\ IF \E k \in 1..Len(started) : started[k].pc = "threw"
             THEN Reject(TypeError)
             ELSE /\ pc' = "calendar_wait"
                  /\ UNCHANGED <<outcome, error>>
    /\ UNCHANGED <<adapterVars, hasDailyIntegration, db, req, evt, isDedicated, booking, video, results, referencesToCreate,
                   deletes, mails, lookups>>

\* A task ends with its result; mapLimit then starts the next queued
\* iteratee, unless an iteratee has failed before.
TaskFinishes(k, answer, event, result) ==
    LET ended == [tasks EXCEPT ![k].pc = "done", ![k].result = result, ![k].answer = answer,
                               ![k].event = event]
        errored == \E j \in 1..Len(ended) : ended[j].pc = "threw"
        queued == {j \in 1..Len(ended) : ended[j].pc = "queued"}
        next == CHOOSE j \in queued : \A i \in queued : j <= i
        begun == StartTask(req.op, ended[next].credential, booking.references)
    IN IF queued = {} \/ errored
       THEN /\ tasks' = ended
            /\ UNCHANGED <<calls, outcome, error, pc>>
       ELSE /\ tasks' = [ended EXCEPT ![next] = begun]
            /\ calls' = calls \o CallsOf(<<begun>>, req.op)
            /\ IF begun.pc = "threw" /\ outcome = "pending"
               THEN Reject(TypeError)
               ELSE UNCHANGED <<outcome, error, pc>>

createEvent_BothFields(credential, op, event) ==
    IF event.present
    THEN EventResult(credential, TRUE, event, event, NoVideoCallData)
    ELSE EventResult(credential, FALSE, NoEvent, NoEvent, NoVideoCallData)

\* The EventResult createEvent / updateEvent returns after a provider answer.
createEvent_KeepsSuccess(credential, op, event) ==
    IF event.present
    THEN EventResult(credential, TRUE, IF op = "create" THEN event ELSE NoEvent,
                     IF op = "create" THEN NoEvent ELSE event, NoVideoCallData)
    ELSE EventResult(credential, TRUE, NoEvent, NoEvent, NoVideoCallData)

createEvent(credential, op, event) ==
    IF event.present
    THEN EventResult(credential, TRUE, IF op = "create" THEN event ELSE NoEvent,
                     IF op = "create" THEN NoEvent ELSE event, NoVideoCallData)
    ELSE EventResult(credential, FALSE, NoEvent, NoEvent, NoVideoCallData)

\* A notification mail: its sendEmail() is in flight ("sending") until the
\* mail layer answers ("sent" or "failed").  owner is the task that sends an
\* organizer mail, 0 for the coordinator's attendee mail.
MailRecord(kind, variant, owner, status) ==
    [kind |-> kind, variant |-> variant, owner |-> owner, status |-> status]

MailAnswered(log, kind, owner, sent) ==
    [i \in 1..Len(log) |->
        IF log[i].kind = kind /\ log[i].owner = owner /\ log[i].status = "sending"
        THEN [log[i] EXCEPT !.status = IF sent THEN "sent" ELSE "failed"]
        ELSE log[i]]

MailVariant_Reschedule(op) == "reschedule"

MailVariant(op) == IF op = "create" THEN "new" ELSE "reschedule"

\* The noMail argument createAllCalendarEvents / updateAllCalendarEvents hand
\* on to createEvent / updateEvent.
NoMail_Default(dedicated) == FALSE

NoMail(dedicated) == dedicated

\* The provider answers task k's createEvent / updateEvent call.
CalendarAdapterResponds(k, ok) ==
    /\ k \in 1..Len(tasks)
    /\ tasks[k].pc = "calling"
    /\ LET t == tasks[k]
           event == IF ~ok THEN NoEvent
                    ELSE IF req.op = "create" THEN AdapterCreatedEvent(t.credential, evt)
                    ELSE AdapterUpdatedEvent(t.credential, t.bookingRefUid, evt)
           noMail == NoMail(isDedicated)
       IN IF ok /\ ~noMail
          THEN /\ tasks' = [tasks EXCEPT ![k].pc = "mail", ![k].event = event, ![k].answer = "ok"]
               /\ mails' = Append(mails, MailRecord("organizer", MailVariant(req.op), k, "sending"))
               /\ UNCHANGED <<calls, outcome, error, pc>>
               /\ evt' = IF req.op = "create"
                         THEN [evt EXCEPT !.additionInformation = event.hangoutLink] ELSE evt
          ELSE /\ TaskFinishes(k, IF ok THEN "ok" ELSE "rejected", event,
                               createEvent(t.credential, req.op, event))
               /\ evt' = IF ok /\ req.op = "create"
                         THEN [evt EXCEPT !.additionInformation = event.hangoutLink] ELSE evt
               /\ UNCHANGED mails
    /\ UNCHANGED <<adapterVars, hasDailyIntegration, db, req, isDedicated, booking, video, results, referencesToCreate,
                   deletes, lookups>>

\* try { await mail.sendEmail() } catch (e) { console.error(...) }: whether
\* the code goes on after the mail layer's answer.
sendEmailCaught_Uncaught(sent) == sent

sendEmailCaught(sent) == TRUE

MailError == "sendEmail failed"

\* organizerMail.sendEmail() answers; a failure is caught and logged.
OrganizerMailDone(k, sent) ==
    /\ k \in 1..Len(tasks)
    /\ tasks[k].pc = "mail"
    /\ mails' = MailAnswered(mails, "organizer", k, sent)
    /\ IF sendEmailCaught(sent)
       THEN TaskFinishes(k, "ok", tasks[k].event,
                         createEvent(tasks[k].credential, req.op, tasks[k].event))
       ELSE /\ tasks' = [tasks EXCEPT ![k].pc = "threw"]
            /\ UNCHANGED calls
            /\ IF outcome = "pending" THEN Reject(MailError) ELSE UNCHANGED <<outcome, error, pc>>
    /\ UNCHANGED <<adapterVars, hasDailyIntegration, db, req, evt, isDedicated, booking, video, results, referencesToCreate,
                   deletes, lookups>>

CalendarDispatchDone_Early ==
    /\ pc = "calendar_wait"
    /\ results' = [k \in 1..Len(tasks) |-> tasks[k].result]
    /\ pc' = IF isDedicated THEN "video" ELSE "notify"
    /\ UNCHANGED <<adapterVars, hasDailyIntegration, db, req, evt, isDedicated, booking, tasks, video, referencesToCreate,
                   outcome, error, deletes, calls, mails, lookups>>

\* The await of calendar dispatch resumes with the results in credential order.
CalendarDispatchDone ==
    /\ pc = "calendar_wait"
    /\ \A k \in 1..Len(tasks) : tasks[k].pc = "done"
    /\ results' = [k \in 1..Len(tasks) |-> tasks[k].result]
    /\ pc' = IF isDedicated THEN "video" ELSE "notify"
    /\ UNCHANGED <<adapterVars, hasDailyIntegration, db, req, evt, isDedicated, booking, tasks, video, referencesToCreate,
                   outcome, error, deletes, calls, mails, lookups>>

(***************************************************************************)
(* DISPATCH_VIDEO: createVideoEvent / updateVideoEvent.                    *)
(***************************************************************************)
\* updateVideoEvent's .then: a result without videoCallData gets the data of
\* the prior reference.
WithReconstructedVideoCallData(result, reference) ==
    IF result.videoCallData.present THEN result
    ELSE [result EXCEPT !.videoCallData = bookingReferenceToVideoCallData(reference)]

WithVideoCallData_Skip(event, result) == event

\* if (result.videoCallData) evt.videoCallData = result.videoCallData
WithVideoCallData(event, result) ==
    IF result.videoCallData.present THEN [event EXCEPT !.videoCallData = result.videoCallData]
    ELSE event

\* results.push(result)
PushResult_Overwrite(rs, result) == <<result>>

PushResult(rs, result) == Append(rs, result)

DispatchVideo ==
    /\ pc = "video"
    /\ LET credential == getVideoCredential(evt, videoCredentials(req.credentials, hasDailyIntegration))
           called == Truthy(BookingRefUid(booking.references, credential))
           skipped == WithReconstructedVideoCallData(
                          updateMeeting(credential, FALSE, FALSE, FALSE),
                          FirstRefOfType(booking.references, credential))
       IN IF credential = Undefined
          THEN /\ Reject(NoSuitableCredentials)
               /\ UNCHANGED <<video, calls, results, evt>>
          ELSE IF req.op = "create" \/ called
          THEN /\ video' = [credential |-> credential, pc |-> "calling"]
               /\ calls' = Append(calls, CallRecord("video", credential, req.op))
               /\ pc' = "video_wait"
               /\ UNCHANGED <<results, evt, outcome, error>>
          ELSE IF ~HasRefOfType(booking.references, credential)
          THEN /\ Reject(MissingReference)
               /\ UNCHANGED <<video, calls, results, evt>>
          ELSE /\ results' = PushResult(results, skipped)
               /\ evt' = WithVideoCallData(evt, skipped)
               /\ pc' = "cleanup"
               /\ UNCHANGED <<video, calls, outcome, error>>
    /\ UNCHANGED <<adapterVars, hasDailyIntegration, db, req, isDedicated, booking, tasks, referencesToCreate, deletes,
                   mails, lookups>>

\* The video provider answers createMeeting / updateMeeting.
VideoResponds(ok, echo) ==
    /\ pc = "video_wait"
    /\ echo => (req.op = "update" /\ ok)
    /\ LET result == IF req.op = "create" THEN createMeeting(video.credential, ok)
                     ELSE WithReconstructedVideoCallData(
                              updateMeeting(video.credential, TRUE, ok, echo),
                              FirstRefOfType(booking.references, video.credential))
       IN /\ results' = PushResult(results, result)
          /\ evt' = WithVideoCallData(evt, result)
    /\ video' = [video EXCEPT !.pc = IF ok THEN "answered" ELSE "failed"]
    /\ pc' = IF req.op = "create" THEN "merge" ELSE "cleanup"
    /\ UNCHANGED <<adapterVars, hasDailyIntegration, db, req, isDedicated, booking, tasks, referencesToCreate,
                   outcome, error, deletes, calls, mails, lookups>>

(***************************************************************************)
(* NOTIFY: sendAttendeeMail, on the non-dedicated path only.               *)
(***************************************************************************)
AfterNotify == IF req.op = "create" THEN "merge" ELSE "cleanup"

Notify ==
    /\ pc = "notify"
    /\ IF ShouldSendAttendeeMail(results)
       THEN /\ evt' = [evt EXCEPT !.additionInformation = AttendeeMailMetadata(results)]
            /\ mails' = Append(mails, MailRecord("attendee", MailVariant(req.op), 0, "sending"))
            /\ pc' = "notify_wait"
       ELSE /\ pc' = AfterNotify
            /\ UNCHANGED <<evt, mails>>
    /\ UNCHANGED <<adapterVars, hasDailyIntegration, db, req, isDedicated, booking, tasks, video, results, referencesToCreate,
                   outcome, error, deletes, calls, lookups>>

AttendeeMailDone(sent) ==
    /\ pc = "notify_wait"
    /\ mails' = MailAnswered(mails, "attendee", 0, sent)
    /\ IF sendEmailCaught(sent)
       THEN /\ pc' = AfterNotify
            /\ UNCHANGED <<outcome, error>>
       ELSE Reject(MailError)
    /\ UNCHANGED <<adapterVars, hasDailyIntegration, db, req, evt, isDedicated, booking, tasks, video, results,
                   referencesToCreate, deletes, calls, lookups>>

(***************************************************************************)
(* MERGE (create): the references of the results, and the return.          *)
(***************************************************************************)
Merge ==
    /\ pc = "merge"
    /\ referencesToCreate' = ReferencesOfResults(results)
    /\ outcome' = "returned"
    /\ pc' = "done"
    /\ UNCHANGED <<adapterVars, hasDailyIntegration, db, req, evt, isDedicated, booking, tasks, video, results, error,
                   deletes, calls, mails, lookups>>

(***************************************************************************)
(* CLEANUP_OLD (update): the three deletions, awaited with Promise.all.    *)
(***************************************************************************)
\* The deletions update creates before it awaits them.
IssuedDeletes == {"bookingReference", "attendee", "booking"}

IssueDeletes ==
    /\ pc = "cleanup"
    /\ deletes' = [d \in DeleteKinds |-> IF d \in IssuedDeletes THEN "pending" ELSE deletes[d]]
    /\ pc' = "cleanup_wait"
    /\ UNCHANGED <<adapterVars, hasDailyIntegration, db, req, evt, isDedicated, booking, tasks, video, results,
                   referencesToCreate, outcome, error, calls, mails, lookups>>

Deleted(store, d) ==
    IF d = "bookingReference" THEN [store EXCEPT !.references = <<>>]
    ELSE IF d = "attendee" THEN [store EXCEPT !.attendees = FALSE]
    ELSE [store EXCEPT !.booking = FALSE]

\* The store answers one deletion.  Promise.all rejects with the first
\* failure; the other deletions still run to their end.
DeleteResponds(d, ok) ==
    /\ deletes[d] = "pending"
    /\ deletes' = [deletes EXCEPT ![d] = IF ok THEN "ok" ELSE "failed"]
    /\ db' = IF ok THEN Deleted(db, d) ELSE db
    /\ IF ~ok /\ outcome = "pending"
       THEN Reject(DeleteFailed)
       ELSE UNCHANGED <<outcome, error, pc>>
    /\ UNCHANGED <<adapterVars, hasDailyIntegration, req, evt, isDedicated, booking, tasks, video, results,
                   referencesToCreate, calls, mails, lookups>>

\* Promise.all([...]) resolves: every deletion it was given has succeeded.
PromiseAll_Any(status) == \E d \in IssuedDeletes : status[d] = "ok"

PromiseAll(status) == \A d \in IssuedDeletes : status[d] = "ok"

UpdateReturn ==
    /\ pc = "cleanup_wait"
    /\ PromiseAll(deletes)
    /\ referencesToCreate' = booking.references
    /\ outcome' = "returned"
    /\ pc' = "done"
    /\ UNCHANGED <<adapterVars, hasDailyIntegration, db, req, evt, isDedicated, booking, tasks, video, results, error,
                   deletes, calls, mails, lookups>>

(***************************************************************************)
(* The specification.                                                      *)
(***************************************************************************)
Next ==
    \/ NewRequest
    \/ RequestEnds
    \/ Locate
    \/ BookingLookup
    \/ DispatchCalendar
    \/ \E k \in 1..MaxCreds, ok \in BOOLEAN : CalendarAdapterResponds(k, ok)
    \/ \E k \in 1..MaxCreds, sent \in BOOLEAN : OrganizerMailDone(k, sent)
    \/ CalendarDispatchDone
    \/ DispatchVideo
    \/ \E ok \in BOOLEAN, echo \in BOOLEAN : VideoResponds(ok, echo)
    \/ Notify
    \/ \E sent \in BOOLEAN : AttendeeMailDone(sent)
    \/ Merge
    \/ IssueDeletes
    \/ \E d \in DeleteKinds, ok \in BOOLEAN : DeleteResponds(d, ok)
    \/ UpdateReturn

Spec == Init /\ [][Next]_vars

\* Every step but the arrival of a request: the code runs on, and every
\* provider call, persistence call and mail send in flight is answered.
Progress ==
    \/ RequestEnds
    \/ Locate
    \/ BookingLookup
    \/ DispatchCalendar
    \/ \E k \in 1..MaxCreds, ok \in BOOLEAN : CalendarAdapterResponds(k, ok)
    \/ \E k \in 1..MaxCreds, sent \in BOOLEAN : OrganizerMailDone(k, sent)
    \/ CalendarDispatchDone
    \/ DispatchVideo
    \/ \E ok \in BOOLEAN, echo \in BOOLEAN : VideoResponds(ok, echo)
    \/ Notify
    \/ \E sent \in BOOLEAN : AttendeeMailDone(sent)
    \/ Merge
    \/ IssueDeletes
    \/ \E d \in DeleteKinds, ok \in BOOLEAN : DeleteResponds(d, ok)
    \/ UpdateReturn

\* The coordinator where whatever is in flight is eventually answered.
LiveSpec == Init /\ [][Next]_vars /\ WF_vars(Progress)

(***************************************************************************)
(* Vocabulary of the properties.                                           *)
(***************************************************************************)
RequestEnded == pc = "done"

\* The calendar tasks whose provider call was made and answered with an event.
SucceededTasks ==
    {k \in 1..Len(tasks) : tasks[k].pc = "done" /\ tasks[k].result.success
                            /\ ResultEvent(tasks[k].result).present}

\* The video provider call was made and rejected.
VideoCallFailed == video.pc = "failed"

\* A result of a video provider is among the results.
VideoResultRecorded == \E i \in 1..Len(results) : endsWith(results[i].type, "_video")

DedicatedLocation == req.location \in {"integrations:zoom", "integrations:daily"}

\* No video credential's type contains the location's integration name.
NoVideoCredentialMatches ==
    LET name == replace(req.location, "integrations:", "")
        held == {t \in Range(req.credentials) : endsWith(t, "_video")}
                  \cup (IF hasDailyIntegration THEN {FAKE_DAILY_CREDENTIAL} ELSE {})
    IN \A t \in held : ~includes(t, name)

InResults(r) == \E i \in 1..Len(results) : results[i] = r

HasReference(type, uid) ==
    \E i \in 1..Len(referencesToCreate) :
        referencesToCreate[i].type = type /\ referencesToCreate[i].uid = uid

\* The reference that belongs to a successful calendar result: on create the
\* new provider id, on update the prior reference's uid the provider call
\* addressed.
CalendarResultReturned(k) ==
    /\ InResults(tasks[k].result)
    /\ IF req.op = "create"
       THEN HasReference(tasks[k].credential, tasks[k].result.createdEvent.id)
       ELSE HasReference(tasks[k].credential, tasks[k].bookingRefUid)

(***************************************************************************)
(* C1 (as stated): whenever the calendar provider call succeeded and the   *)
(* video provider call of the same request fails or rejects, the "no       *)
(* suitable credential" case included, the request still returns a results *)
(* array holding the calendar provider's successful EventResult and its    *)
(* reference.                                                              *)
(***************************************************************************)
C1_IsolationIncludingNoCredential ==
    (RequestEnded /\ SucceededTasks # {} /\ (VideoCallFailed \/ error = NoSuitableCredentials))
        => (outcome = "returned" /\ \A k \in SucceededTasks : CalendarResultReturned(k))

(***************************************************************************)
(* C1 (amended): a failure of the video provider call itself is isolated   *)
(* to the video result: create then returns the calendar provider's        *)
(* successful EventResult and its reference, and so does update unless a   *)
(* cleanup deletion fails.  When no video credential matches, the request  *)
(* rejects and returns neither results nor references.                     *)
(***************************************************************************)
C1_VideoCallFailureIsolated ==
    /\ (RequestEnded /\ SucceededTasks # {} /\ VideoCallFailed)
         => /\ outcome = "returned" \/ (req.op = "update" /\ error = DeleteFailed)
            /\ outcome = "returned" => \A k \in SucceededTasks : CalendarResultReturned(k)
    /\ (RequestEnded /\ SucceededTasks # {} /\ DedicatedLocation /\ NoVideoCredentialMatches)
         => (outcome = "rejected" /\ referencesToCreate = <<>> /\ ~VideoResultRecorded)

C1_Witness ==
    /\ RequestEnded /\ SucceededTasks # {} /\ VideoCallFailed
    /\ outcome = "returned"
    /\ \A k \in SucceededTasks : CalendarResultReturned(k)

(***************************************************************************)
(* C2: when the calendar adapter's createEvent or updateEvent call         *)
(* rejects, calendarClient.createEvent / updateEvent does not throw: it    *)
(* answers an EventResult with success=false and neither createdEvent nor  *)
(* updatedEvent, and the request goes on: it is never rejected on account  *)
(* of that call, and what it returns holds the failed result.              *)
(***************************************************************************)
RejectedTasks == {k \in 1..Len(tasks) : tasks[k].answer = "rejected"}

C2_AdapterRejectionRecorded ==
    \A k \in RejectedTasks :
        /\ tasks[k].pc = "done"
        /\ tasks[k].result.type = tasks[k].credential
        /\ ~tasks[k].result.success
        /\ ~tasks[k].result.createdEvent.present
        /\ ~tasks[k].result.updatedEvent.present
        /\ outcome = "rejected"
             => error \in {TypeError, NoSuitableCredentials, MissingReference, DeleteFailed}
        /\ (RequestEnded /\ ~isDedicated /\ req.op = "create") => outcome = "returned"
        /\ outcome = "returned" => InResults(tasks[k].result)

C2_Witness ==
    /\ RequestEnded /\ outcome = "returned"
    /\ \E k \in RejectedTasks : InResults(tasks[k].result) /\ ~tasks[k].result.success
    /\ \E i \in 1..Len(mails) : mails[i].kind = "attendee"

(***************************************************************************)
(* C3 (as stated): for every create request, referencesToCreate holds      *)
(* exactly one reference for each EventResult with success=true, carrying  *)
(* the result's provider type and the provider-issued uid, and no          *)
(* reference for a failed EventResult.                                     *)
(***************************************************************************)
ProviderUid(result) ==
    IF result.type = "daily_video" THEN result.createdEvent.name ELSE result.createdEvent.id

C3_OneReferencePerSuccessfulResult ==
    (req.op = "create" /\ outcome = "returned")
        => /\ Len(referencesToCreate) = Cardinality({i \in 1..Len(results) : results[i].success})
           /\ \A i \in 1..Len(results) :
                IF results[i].success
                THEN HasReference(results[i].type, ProviderUid(results[i]))
                ELSE ~ \E j \in 1..Len(referencesToCreate) :
                          referencesToCreate[j].type = results[i].type

(***************************************************************************)
(* C4 (as stated): a create or update whose location is a dedicated        *)
(* integration and for which no video credential's type matches the        *)
(* integration name rejects with "No suitable credentials given for the    *)
(* requested integration name.", makes no video adapter call and returns   *)
(* no reference for the video provider.                                    *)
(***************************************************************************)
NoVideoCallMade ==
    /\ video.pc = "idle"
    /\ \A i \in 1..Len(calls) : calls[i].adapter # "video"

NoVideoReferenceReturned ==
    \A i \in 1..Len(referencesToCreate) : ~endsWith(referencesToCreate[i].type, "_video")

C4_RejectsWithNoSuitableCredentials ==
    (DedicatedLocation /\ NoVideoCredentialMatches)
        => /\ NoVideoCallMade
           /\ NoVideoReferenceReturned
           /\ RequestEnded => (outcome = "rejected" /\ error = NoSuitableCredentials)

(***************************************************************************)
(* C4 (amended): such a request never returns: it rejects, with the "No    *)
(* suitable credentials" message whenever it gets as far as video          *)
(* dispatch.  An update without rescheduleUid or for an unknown booking,   *)
(* and a request whose calendar dispatch throws, reject before that with   *)
(* their own error.  No video adapter call is made and no reference for    *)
(* the video provider is returned.                                         *)
(***************************************************************************)
SomeTaskThrew == \E k \in 1..Len(tasks) : tasks[k].pc = "threw"

C4_NoCredentialRejects ==
    (DedicatedLocation /\ NoVideoCredentialMatches)
        => /\ NoVideoCallMade
           /\ NoVideoReferenceReturned /\ ~VideoResultRecorded
           /\ outcome # "returned"
           /\ RequestEnded =>
                /\ outcome = "rejected"
                /\ error = IF req.op = "update" /\ ~Truthy(req.rescheduleUid) THEN NoRescheduleUid
                           ELSE IF req.op = "update" /\ ~booking.found THEN BookingNotFound
                           ELSE IF SomeTaskThrew THEN TypeError
                           ELSE NoSuitableCredentials

C4_Witness ==
    /\ DedicatedLocation /\ NoVideoCredentialMatches
    /\ req.op = "update" /\ RequestEnded /\ error = NoSuitableCredentials
    /\ SucceededTasks # {}

(***************************************************************************)
(* C5: an update whose rescheduleUid matches no stored booking fails with  *)
(* "booking not found"; in that request no deletion, no provider update    *)
(* call and no mail send is attempted.                                     *)
(***************************************************************************)
NoStoredBookingMatches ==
    /\ req.op = "update"
    /\ Truthy(req.rescheduleUid)
    /\ \/ req.rescheduleUid # StoredUid
       \/ ~db.booking /\ deletes["booking"] # "ok"

NothingAttempted ==
    /\ \A d \in DeleteKinds : deletes[d] = "idle"
    /\ calls = <<>>
    /\ tasks = <<>>
    /\ video.pc = "idle"
    /\ mails = <<>>

C5_BookingNotFound ==
    NoStoredBookingMatches
        => /\ NothingAttempted
           /\ pc \in {"locate", "lookup", "done"}
           /\ RequestEnded => (outcome = "rejected" /\ error = BookingNotFound)

C5_Witness ==
    /\ NoStoredBookingMatches /\ RequestEnded /\ lookups = 1
    /\ error = BookingNotFound
    /\ Len(calendarCredentials(req.credentials)) > 0

(***************************************************************************)
(* C6: an update with an empty rescheduleUid fails before any booking      *)
(* lookup, provider call, mail send or deletion.                           *)
(***************************************************************************)
C6_NoRescheduleUid ==
    (req.op = "update" /\ ~Truthy(req.rescheduleUid))
        => /\ lookups = 0
           /\ NothingAttempted
           /\ pc \in {"locate", "done"}
           /\ RequestEnded => (outcome = "rejected" /\ error = NoRescheduleUid)

C6_Witness ==
    /\ req.op = "update" /\ ~Truthy(req.rescheduleUid) /\ RequestEnded
    /\ error = NoRescheduleUid
    /\ db.booking /\ Len(calendarCredentials(req.credentials)) > 0

(***************************************************************************)
(* C7: in update the deletions of the old booking's references, of its     *)
(* attendees and of the booking row are issued together, update returns    *)
(* {results, referencesToCreate} only if all three succeeded, and if any   *)
(* one of them fails the update fails as a whole.                          *)
(***************************************************************************)
C7_AllDeletionsOrFailure ==
    /\ \/ \A d \in DeleteKinds : deletes[d] = "idle"
       \/ \A d \in DeleteKinds : deletes[d] # "idle"
    /\ (req.op = "update" /\ outcome = "returned")
         => \A d \in DeleteKinds : deletes[d] = "ok"
    /\ (\E d \in DeleteKinds : deletes[d] = "failed")
         => (outcome = "rejected" /\ error = DeleteFailed /\ referencesToCreate = <<>>)
    /\ req.op = "create" => \A d \in DeleteKinds : deletes[d] = "idle"

C7_Witness ==
    /\ req.op = "update" /\ RequestEnded /\ outcome = "returned"
    /\ \A d \in DeleteKinds : deletes[d] = "ok"
    /\ SucceededTasks # {}

(***************************************************************************)
(* C8: a failure of a notification send (the coordinator's attendee mail,  *)
(* calendarClient's organizer mail) never makes create or update fail and  *)
(* never changes the returned results or referencesToCreate.               *)
(***************************************************************************)
FailedMails == {i \in 1..Len(mails) : mails[i].status = "failed"}

\* What a task's result is by the provider's answer alone (no call made:
\* success without an event).
ResultByProviderAnswer(k) ==
    LET t == tasks[k]
        event == IF t.answer # "ok" THEN NoEvent
                 ELSE IF req.op = "create" THEN AdapterCreatedEvent(t.credential,
                                          processLocation(NewCalendarEvent(req.location)))
                 ELSE AdapterUpdatedEvent(t.credential, t.bookingRefUid, evt)
    IN EventResult(t.credential, t.answer # "rejected",
                   IF req.op = "create" THEN event ELSE NoEvent,
                   IF req.op = "create" THEN NoEvent ELSE event, NoVideoCallData)

C8_MailFailureSwallowed ==
    /\ error # MailError
    /\ \A i \in FailedMails :
          /\ mails[i].kind = "organizer" =>
                /\ tasks[mails[i].owner].pc = "done"
                /\ tasks[mails[i].owner].result.success
          /\ mails[i].kind = "attendee" => pc # "notify_wait"
          /\ outcome = "rejected" => error \in {TypeError, DeleteFailed}
          /\ (RequestEnded /\ req.op = "create") => outcome = "returned"
    /\ (outcome = "returned" /\ ~isDedicated) =>
          /\ Len(results) = Len(tasks)
          /\ \A k \in 1..Len(tasks) : results[k] = ResultByProviderAnswer(k)
          /\ referencesToCreate = IF req.op = "create" THEN ReferencesOfResults(results)
                                  ELSE booking.references

C8_Witness ==
    /\ RequestEnded /\ outcome = "returned"
    /\ \E i \in FailedMails : mails[i].kind = "organizer"
    /\ \E i \in FailedMails : mails[i].kind = "attendee"
    /\ \A k \in 1..Len(tasks) : results[k] = ResultByProviderAnswer(k) /\ results[k].success

(***************************************************************************)
(* C9: a create or update whose location is a dedicated video integration  *)
(* ("integrations:zoom" or "integrations:daily") sends no generic          *)
(* notification mail at all: no attendee mail and no organizer mail, in    *)
(* either variant.                                                         *)
(***************************************************************************)
C9_DedicatedSendsNoMail ==
    DedicatedLocation => mails = <<>>

C9_Witness ==
    /\ DedicatedLocation /\ RequestEnded /\ outcome = "returned"
    /\ SucceededTasks # {}
    /\ mails = <<>>

(***************************************************************************)
(* C10 (as stated): in a non-dedicated create or update in which a         *)
(* result's created/updated event carries disableConfirmationEmail = true, *)
(* neither the attendee mail nor the organizer mail is sent.               *)
(***************************************************************************)
ConfirmationDisabled ==
    \E i \in 1..Len(results) : ResultEvent(results[i]).disableConfirmationEmail

C10_NoMailWhenDisabled ==
    (~DedicatedLocation /\ ConfirmationDisabled)
        => \A i \in 1..Len(mails) : mails[i].status # "sent"

(***************************************************************************)
(* C10 (amended): in such a request the attendee mail is not sent; the     *)
(* organizer mail of every calendar call that returned an event is still   *)
(* sent, in the request's variant.                                         *)
(***************************************************************************)
C10_NoAttendeeMailWhenDisabled ==
    (~DedicatedLocation /\ ConfirmationDisabled)
        => /\ \A i \in 1..Len(mails) : mails[i].kind = "organizer"
           /\ pc # "notify_wait"
           /\ \A k \in SucceededTasks :
                 \E i \in 1..Len(mails) :
                     /\ mails[i] \in {MailRecord("organizer", MailVariant(req.op), k, status) :
                                        status \in {"sent", "failed"}}

C10_Witness ==
    /\ ~DedicatedLocation /\ ConfirmationDisabled
    /\ RequestEnded /\ outcome = "returned"
    /\ Len(mails) = 1 /\ mails[1].kind = "organizer" /\ mails[1].status = "sent"

(***************************************************************************)
(* C11: on update of a Zoom dedicated booking whose provider answer has no *)
(* videoCallData, the VideoCallData is reconstructed from the prior stored *)
(* zoom_video reference only if that reference has a meeting id, a         *)
(* password and a url; if one of them is missing (null as read from the    *)
(* store), the result carries no VideoCallData, never one with an empty    *)
(* or partly filled field.                                                 *)
(***************************************************************************)
FieldMissing(v) == v = Undefined \/ v = Null \/ v = ""

\* The results of the Zoom update whose videoCallData the provider did not give.
ReconstructedZoomResults ==
    {i \in 1..Len(results) :
        /\ req.op = "update" /\ results[i].type = "zoom_video"
        /\ results[i].videoCallData # NewVideoCallData("zoom_video")}

C11_ReconstructionAllOrNothing ==
    \A i \in ReconstructedZoomResults :
        LET reference == FirstRefOfType(booking.references, "zoom_video")
            vcd == results[i].videoCallData
            complete == /\ ~FieldMissing(reference.meetingId)
                        /\ ~FieldMissing(reference.meetingPassword)
                        /\ ~FieldMissing(reference.meetingUrl)
        IN IF complete
           THEN vcd = [present |-> TRUE, type |-> "zoom_video", id |-> reference.meetingId,
                       password |-> reference.meetingPassword, url |-> reference.meetingUrl]
           ELSE ~vcd.present

(***************************************************************************)
(* C12 (as stated): a create or update with one or more calendar           *)
(* credentials invokes exactly one calendar-provider adapter, the one of   *)
(* the first calendar credential, and no other calendar credential's       *)
(* (read for a first credential whose type has an adapter and, on update,  *)
(* a prior reference to address).                                          *)
(***************************************************************************)
CalendarCalls == SelectSeqBy(calls, {c \in Range(calls) : c.adapter = "calendar"})

CalendarDispatched == pc \notin {"idle", "locate", "lookup", "calendar"}

Referenced(cc) ==
    {k \in 1..Len(cc) : Truthy(BookingRefUid(booking.references, cc[k]))}

ScenarioA ==
    /\ req.op = "create"
    /\ req.credentials = <<"google_calendar">>
    /\ req.location \in {Null, "Office"}
    /\ RequestEnded
    /\ \E k \in 1..Len(tasks) : tasks[k].answer = "ok"

MailsOf(kind, variant) ==
    {i \in 1..Len(mails) : mails[i].kind = kind /\ mails[i].variant = variant}

C13_ScenarioA ==
    ScenarioA =>
        /\ outcome = "returned"
        /\ Len(results) = 1
        /\ results[1].type = "google_calendar" /\ results[1].success
        /\ results[1].createdEvent = AdapterCreatedEvent("google_calendar", NewCalendarEvent(req.location))
        /\ NoVideoCallMade
        /\ Len(mails) = 2
        /\ Cardinality(MailsOf("organizer", "new")) = 1
        /\ Cardinality(MailsOf("attendee", "new")) = 1
        /\ \A i \in 1..Len(mails) : mails[i].status \in {"sent", "failed"}
        /\ referencesToCreate = <<PartialReference("google_calendar", "google-new",
                                                   Undefined, Undefined, Undefined)>>

C13_Witness ==
    /\ ScenarioA /\ outcome = "returned"
    /\ Len(results) = 1 /\ Len(referencesToCreate) = 1
    /\ Len(mails) = 2 /\ \A i \in 1..Len(mails) : mails[i].status = "sent"

(***************************************************************************)
(* C14 (Scenario B): a create with one calendar credential, one zoom_video *)
(* credential and location "integrations:zoom" in which both provider      *)
(* calls succeed returns the results [calendar result, video result] in    *)
(* that order, copies the video result's VideoCallData onto the event and  *)
(* returns exactly two references, the video one carrying the meeting id,  *)
(* password and url.                                                       *)
(***************************************************************************)
ScenarioB ==
    /\ req.op = "create"
    /\ req.location = "integrations:zoom"
    /\ Len(req.credentials) = 2
    /\ Len(calendarCredentials(req.credentials)) = 1
    /\ "zoom_video" \in Range(req.credentials)
    /\ RequestEnded
    /\ \E k \in 1..Len(tasks) : tasks[k].answer = "ok"
    /\ video.pc = "answered"

C14_ScenarioB ==
    ScenarioB =>
        LET calendar == calendarCredentials(req.credentials)[1]
            calendarId == IF calendar = "google_calendar" THEN "google-new" ELSE "o365-new"
            data == NewVideoCallData("zoom_video")
        IN /\ outcome = "returned"
           /\ Len(results) = 2
           /\ results[1].type = calendar /\ results[1].success
           /\ results[1].createdEvent.present /\ results[1].createdEvent.id = calendarId
           /\ results[2].type = "zoom_video" /\ results[2].success
           /\ results[2].videoCallData = data
           /\ evt.videoCallData = data
           /\ referencesToCreate =
                 << PartialReference(calendar, calendarId, Undefined, Undefined, Undefined),
                    PartialReference("zoom_video", "meeting-new", data.id, data.password, data.url) >>
           /\ mails = <<>>

C14_Witness ==
    /\ ScenarioB /\ outcome = "returned"
    /\ req.credentials = <<"google_calendar", "zoom_video">>
    /\ Len(referencesToCreate) = 2
    /\ Truthy(referencesToCreate[2].meetingPassword)
    /\ evt.videoCallData.present

(***************************************************************************)
(* C19: isDedicatedIntegration is true exactly for "integrations:zoom" and *)
(* "integrations:daily"; the coordinator's dedicated decision is true only *)
(* for these, is made for them once the request is past the decision, and  *)
(* for a null location it is false and no video dispatch happens.          *)
(***************************************************************************)
DecisionMade ==
    \/ req.op = "create" /\ pc \notin {"idle", "locate"}
    \/ req.op = "update" /\ booking.found /\ pc \notin {"idle", "locate", "lookup"}

C19_DedicatedExactlyZoomAndDaily ==
    /\ \A l \in LocationPool \ {Null} :
           isDedicatedIntegration(l) <=> l \in {"integrations:zoom", "integrations:daily"}
    /\ isDedicated => DedicatedLocation
    /\ DecisionMade => (isDedicated <=> DedicatedLocation)
    /\ ~DedicatedLocation => NoVideoCallMade
    /\ req.location = Null => (~isDedicated /\ NoVideoCallMade)

C19_Witness ==
    /\ req.op = "create" /\ pc = "done" /\ outcome = "returned"
    /\ req.location = Null
    /\ "zoom_video" \in Range(req.credentials)
    /\ ~isDedicated /\ NoVideoCallMade

(***************************************************************************)
(* C20: with no calendar credential in the credential set, calendar        *)
(* dispatch in create and in update starts no task, calls no calendar      *)
(* adapter, adds no result and raises no error: the results are those of   *)
(* the video dispatch alone, and a create without a dedicated location     *)
(* returns with an empty result list.                                      *)
(***************************************************************************)
NoCalendarCredential ==
    \A i \in 1..Len(req.credentials) : ~endsWith(req.credentials[i], "_calendar")

C20_NoCalendarNoDispatch ==
    (req.op \in {"create", "update"} /\ NoCalendarCredential) =>
        /\ tasks = <<>>
        /\ CalendarCalls = <<>>
        /\ error # TypeError
        /\ \A i \in 1..Len(results) : endsWith(results[i].type, "_video")
        /\ ~DedicatedLocation => results = <<>>
        /\ (req.op = "create" /\ ~DedicatedLocation /\ pc = "done") =>
               (outcome = "returned" /\ error = Undefined)

C20_Witness ==
    /\ req.op = "update" /\ pc = "done" /\ outcome = "returned"
    /\ req.credentials = <<"zoom_video">>
    /\ ~DedicatedLocation
    /\ results = <<>> /\ calls = <<>>


(***************************************************************************)
(* C21: in an update, a dispatched calendar credential for whose type the  *)
(* old booking has no reference gets no adapter updateEvent call, does not *)
(* throw, and its result is recorded with success = true and no updated    *)
(* event.                                                                  *)
(***************************************************************************)
NoPriorReference(type) ==
    \A i \in 1..Len(booking.references) : booking.references[i].type # type

\* The tasks of an update that have started and have no prior reference.
UnreferencedTasks ==
    {k \in 1..Len(tasks) :
        req.op = "update" /\ tasks[k].pc # "queued" /\ NoPriorReference(tasks[k].credential)}

SkippedResult(type) == EventResult(type, TRUE, NoEvent, NoEvent, NoVideoCallData)

C21_UpdateSkippedWithoutReference ==
    \A k \in UnreferencedTasks :
        /\ tasks[k].pc = "done"
        /\ tasks[k].answer = "none"
        /\ tasks[k].result = SkippedResult(tasks[k].credential)
        /\ \A i \in 1..Len(CalendarCalls) : CalendarCalls[i].type # tasks[k].credential
        /\ \A i \in 1..Len(mails) : mails[i].owner # k
        /\ k <= Len(results) => results[k] = SkippedResult(tasks[k].credential)
        /\ (pc = "done" /\ outcome = "returned") => k <= Len(results)

C21_Witness ==
    /\ req.op = "update" /\ pc = "done" /\ outcome = "returned"
    /\ Len(CalendarCalls) = 1
    /\ \E k \in UnreferencedTasks :
           /\ tasks[k].credential \in AdapterTypes
           /\ results[k].success /\ ~results[k].updatedEvent.present


(***************************************************************************)
(* C22: for a location that is a recognised integration sentinel,          *)
(* processLocation applied twice gives the same requestId and the same     *)
(* location as applied once, two events with the same location get the     *)
(* same requestId, and the event of a request past enrichment carries that *)
(* requestId and is left as it is by another enrichment.                   *)
(***************************************************************************)
\* Events with a sentinel location, differing in their other fields.
SentinelEvents ==
    {[NewCalendarEvent(l) EXCEPT !.additionInformation = a] :
        l \in LocationType, a \in {Undefined, "https://meet/new"}}

Enriched == pc \notin {"idle", "locate"}

C22_EnrichmentIdempotent ==
    /\ \A e \in SentinelEvents :
          /\ processLocation(e).conferenceData # Undefined
          /\ processLocation(processLocation(e)).conferenceData = processLocation(e).conferenceData
          /\ processLocation(processLocation(e)).location = processLocation(e).location
          /\ processLocation(e).location = e.location
    /\ \A e1, e2 \in SentinelEvents :
          e1.location = e2.location =>
              processLocation(e1).conferenceData = processLocation(e2).conferenceData
    /\ (Enriched /\ req.location \in LocationType) =>
          /\ evt.conferenceData = uuidv5(req.location)
          /\ evt.location = req.location
          /\ processLocation(evt) = evt

C22_Witness ==
    /\ pc = "done" /\ outcome = "returned"
    /\ req.location = "integrations:google:meet"
    /\ evt.conferenceData = uuidv5("integrations:google:meet")
    /\ evt.additionInformation # Undefined


(***************************************************************************)
(* C24: every EventResult of a calendar create or update with success =    *)
(* true has exactly one of createdEvent / updatedEvent populated, and with *)
(* success = false has neither.                                            *)
(***************************************************************************)
\* The tasks whose createEvent / updateEvent has returned its EventResult.
ReturnedTasks == {k \in 1..Len(tasks) : tasks[k].pc = "done"}

Populated(result) ==
    (IF result.createdEvent.present THEN 1 ELSE 0) + (IF result.updatedEvent.present THEN 1 ELSE 0)

C24_ExactlyOneEventOnSuccess ==
    \A k \in ReturnedTasks :
        /\ tasks[k].result.success => Populated(tasks[k].result) = 1
        /\ ~tasks[k].result.success => Populated(tasks[k].result) = 0

(***************************************************************************)
(* C24 (amended): an EventResult with success = false has neither event;   *)
(* one with success = true has createdEvent alone (create) or updatedEvent *)
(* alone (update) when the adapter was called and answered, and neither    *)
(* when the update was skipped for lack of a prior reference uid.          *)
(***************************************************************************)
C24_EventFieldsOfResult ==
    \A k \in ReturnedTasks :
        LET t == tasks[k]
            r == t.result
        IN /\ ~r.success => (Populated(r) = 0 /\ t.answer = "rejected")
           /\ (r.success /\ t.answer = "ok") =>
                 /\ Populated(r) = 1
                 /\ r.createdEvent.present <=> req.op = "create"
                 /\ r.updatedEvent.present <=> req.op = "update"
           /\ (r.success /\ t.answer # "ok") =>
                 /\ Populated(r) = 0
                 /\ t.answer = "none"
                 /\ req.op = "update"
                 /\ ~Truthy(t.bookingRefUid)
           /\ k <= Len(results) => results[k] = r

C24_Witness ==
    /\ req.op = "update" /\ pc = "done" /\ outcome = "returned"
    /\ Len(tasks) = 2
    /\ tasks[1].result.success /\ Populated(tasks[1].result) = 1
    /\ tasks[2].result.success /\ Populated(tasks[2].result) = 0


(***************************************************************************)
(* C25: when every provider call, persistence call and mail send is        *)
(* eventually answered, every create and every update request that is      *)
(* pending eventually returns or rejects, also when an adapter call fails. *)
(***************************************************************************)
Terminal == outcome \in {"returned", "rejected"}

C25_RequestTerminates == (outcome = "pending") ~> Terminal

\* A request that returned although a calendar adapter call had failed.
C25_Witness ==
    /\ pc = "done" /\ outcome = "returned"
    /\ \E k \in 1..Len(tasks) : tasks[k].answer = "rejected"


(***************************************************************************)
(* C26: within one create or update request, when the video credential     *)
(* lookup or the video-provider call starts, every calendar-provider call  *)
(* (and the organizer mail that follows it) has completed; no calendar     *)
(* call is issued after a video call.                                      *)
(***************************************************************************)
VideoDispatchReached == pc \in {"video", "video_wait"} \/ video.pc # "idle"

C26_CalendarBeforeVideo ==
    /\ VideoDispatchReached =>
          /\ \A k \in 1..Len(tasks) : tasks[k].pc = "done"
          /\ \A i \in 1..Len(mails) :
                 mails[i].kind = "organizer" => mails[i].status # "sending"
          /\ Len(results) >= Len(tasks)
    /\ \A i, j \in 1..Len(calls) :
          (calls[i].adapter = "video" /\ calls[j].adapter = "calendar") => j < i

C26_Witness ==
    /\ req.op = "update" /\ video.pc = "calling"
    /\ Len(CalendarCalls) = 1
    /\ \E i \in 1..Len(calls) : calls[i].adapter = "video"


(***************************************************************************)
(* C27: an update that returns gives, when dispatch yielded results, one   *)
(* reference per successful result, of that result's type, and no other;   *)
(* it gives the old booking's references only when dispatch yielded no     *)
(* results.                                                                *)
(***************************************************************************)
SuccessfulResults == {i \in 1..Len(results) : results[i].success}

C27_UpdateReferencesFromResults ==
    (req.op = "update" /\ outcome = "returned") =>
        IF results = <<>>
        THEN referencesToCreate = booking.references
        ELSE /\ Len(referencesToCreate) = Cardinality(SuccessfulResults)
             /\ \A i \in SuccessfulResults :
                    \E j \in 1..Len(referencesToCreate) :
                        referencesToCreate[j].type = results[i].type
             /\ \A j \in 1..Len(referencesToCreate) :
                    \E i \in SuccessfulResults :
                        referencesToCreate[j].type = results[i].type


\* The addition-information (hangout link, with its conference data and entry
\* points) of the first result that succeeded, if any.
FirstSuccessfulInformation(rs) ==
    IF \E i \in 1..Len(rs) : rs[i].success
    THEN ResultEvent(rs[CHOOSE i \in 1..Len(rs) :
                            rs[i].success /\ \A j \in 1..(i - 1) : ~rs[j].success]).hangoutLink
    ELSE Undefined

\* C33: while the attendee mail of a non-dedicated create or update is being
\* sent, the addition-information attached to the event is that of the first
\* successful result (from its created event on create, its updated event on
\* update).
C33_InformationOfFirstSuccess ==
    pc = "notify_wait" => evt.additionInformation = FirstSuccessfulInformation(results)


\* C34: a create or update whose first calendar credential has a type ending
\* in "_calendar" without an adapter in the registry does not fail: the
\* credential is not dispatched and the request does not end with the error
\* of a missing adapter.
C34_UnregisteredCalendarExcluded ==
    LET calendarCreds == calendarCredentials(req.credentials)
    IN (calendarCreds # <<>> /\ calendars(<<calendarCreds[1]>>) = <<>>) =>
           /\ error # TypeError
           /\ \A k \in 1..Len(tasks) : tasks[k].credential # calendarCreds[1]


\* A non-dedicated create that has passed the decision of sendAttendeeMail.
NotifiedCreate ==
    /\ req.op = "create"
    /\ ~isDedicated
    /\ \/ pc \in {"notify_wait", "merge"}
       \/ pc = "done" /\ outcome = "returned"

\* C35: in a non-dedicated create the attendee "new" mail is sent only if a
\* dispatched provider call succeeded; when the only calendar call fails, no
\* attendee mail is sent.
C35_AttendeeMailOnlyAfterSuccess ==
    (req.op = "create" /\ ~isDedicated /\ MailsOf("attendee", "new") # {})
        => \E i \in 1..Len(results) : results[i].success

\* C35 (amended): in a non-dedicated create the attendee "new" mail is issued
\* exactly when no result's event disables confirmation mail, whether or not
\* a provider call succeeded; when the only calendar call fails, it is issued.
C35_AttendeeMailUnlessDisabled ==
    NotifiedCreate =>
        /\ MailsOf("attendee", "new") # {} <=> ~ConfirmationDisabled
        /\ (Len(results) = 1 /\ ~results[1].success) => MailsOf("attendee", "new") # {}

C35_Witness ==
    /\ NotifiedCreate
    /\ pc = "done"
    /\ Len(results) = 1 /\ ~results[1].success
    /\ \E i \in MailsOf("attendee", "new") : mails[i].status = "sent"


\* An update on a dedicated location for which the EventManager holds no
\* video credential: updateVideoEvent rejects.
VideoDispatchRejects ==
    /\ req.op = "update"
    /\ isDedicated
    /\ getVideoCredential(evt, videoCredentials(req.credentials, hasDailyIntegration)) = Undefined

DeletesIssued == \E d \in DeleteKinds : deletes[d] # "idle"

\* C36: in an update the deletions of the old booking, its references and
\* its attendees are issued only after calendar dispatch, video dispatch (if
\* any) and the attendee notification have completed; when video dispatch
\* rejects for want of a credential, no deletion is issued and the old
\* booking stays in the store with its references.
C36_DeletesAfterDispatchAndNotify ==
    /\ (req.op = "update" /\ DeletesIssued) =>
          /\ \A k \in 1..Len(tasks) : tasks[k].pc = "done"
          /\ Len(results) = Len(tasks) + (IF isDedicated THEN 1 ELSE 0)
          /\ video.pc # "calling"
          /\ \A i \in 1..Len(mails) : mails[i].status # "sending"
          /\ pc \in {"cleanup_wait", "done"}
    /\ VideoDispatchRejects =>
          /\ ~DeletesIssued
          /\ pc = "done" => outcome = "rejected"
          /\ error = NoSuitableCredentials =>
                db.booking /\ db.references = booking.references

C36_Witness ==
    /\ VideoDispatchRejects
    /\ pc = "done" /\ error = NoSuitableCredentials
    /\ Len(results) > 0
    /\ db.booking /\ db.references # <<>>


(***************************************************************************)
(* The availability aggregator: calendarClient.getBusyCalendarTimes and    *)
(* the adapters' getAvailability.                                          *)
(***************************************************************************)
\* The longest credential list of a fan-out.
MaxFanOut == 6

AvailabilityTypePool == {"google_calendar", "office365_calendar", "exchange_calendar"}

\* google, office365, google, ... : n credentials that all have an adapter.
Alternating(n) ==
    [k \in 1..n |-> IF k % 2 = 1 THEN "google_calendar" ELSE "office365_calendar"]

AvailabilityCredentialSets ==
    SeqsUpTo(AvailabilityTypePool, 2) \cup {Alternating(n) : n \in 3..MaxFanOut}

\* SelectedCalendar rows: the integration and the calendar's external id.
SelectedCalendar(integration, externalId) ==
    [integration |-> integration, externalId |-> externalId]

SelectedCalendarSets ==
    { <<>>,
      <<SelectedCalendar("google_calendar", "g2")>>,
      <<SelectedCalendar("office365_calendar", "o1")>>,
      <<SelectedCalendar("apple_calendar", "a1")>>,
      <<SelectedCalendar("office365_calendar", "")>>,
      <<SelectedCalendar("google_calendar", "g1"), SelectedCalendar("office365_calendar", "o1")>> }

\* The calendars the user owns at a provider, as its calendar list answers.
UserCalendars(type) ==
    IF type = "google_calendar" THEN <<"g1", "g2">>
    ELSE IF type = "office365_calendar" THEN <<"o1">>
    ELSE <<>>

\* The busy times the provider answers for the queried calendars: one
\* interval per calendar.
BusyTimes(ids) == [i \in 1..Len(ids) |-> [calendar |-> ids[i]]]

selectedCalendarIds_All(selectedCalendars, integrationType) ==
    [i \in 1..Len(selectedCalendars) |-> selectedCalendars[i].externalId]

\* selectedCalendars.filter((e) => e.integration === integrationType)
\*                  .map((e) => e.externalId)
\* and, in the Office365 adapter only, .filter(Boolean)
selectedCalendarIds(selectedCalendars, integrationType) ==
    LET mine == SelectSeqBy(selectedCalendars,
                            {e \in Range(selectedCalendars) :
                                /\ e.integration = integrationType
                                /\ integrationType = "office365_calendar" => Truthy(e.externalId)})
    IN [i \in 1..Len(mine) |-> mine[i].externalId]

\* One getAvailability call: "token" (auth.getToken() is in flight), "list"
\* (the calendar list is), "query" (the busy-time query is), "resolved",
\* "rejected".
AvailabilityCall(type, callPc, ids, value) ==
    [type |-> type, pc |-> callPc, ids |-> ids, value |-> value]

InFlight == {k \in 1..Len(fan) : fan[k].pc \in {"token", "list", "query"}}

\* getBusyCalendarTimes: calendars(withCredentials).map((c) =>
\* c.getAvailability(...)) starts every call at once; Promise.all awaits them.
\* (The long credential lists come without a calendar filter.)
getBusyCalendarTimes ==
    /\ aggregate.pc = "idle"
    /\ \E credentials \in AvailabilityCredentialSets, selectedCalendars \in SelectedCalendarSets :
          /\ Len(credentials) > 2 => selectedCalendars = <<>>
          /\ availReq' = [op |-> "getBusyCalendarTimes", credentials |-> credentials,
                          selectedCalendars |-> selectedCalendars]
          /\ fan' = [k \in 1..Len(calendars(credentials)) |->
                        AvailabilityCall(calendars(credentials)[k], "token", <<>>, <<>>)]
    /\ aggregate' = [pc |-> "pending", value |-> <<>>]
    /\ UNCHANGED besideAvailability

\* The credential lists listCalendars is called with.
ListCredentialSets == SeqsUpTo(AvailabilityTypePool, 2)

\* listCalendars: calendars(withCredentials).map((c) => c.listCalendars())
\* starts every call at once; Promise.all awaits them.
listCalendars ==
    /\ aggregate.pc = "idle"
    /\ \E credentials \in ListCredentialSets :
          /\ availReq' = [op |-> "listCalendars", credentials |-> credentials,
                          selectedCalendars |-> <<>>]
          /\ fan' = [k \in 1..Len(calendars(credentials)) |->
                        AvailabilityCall(calendars(credentials)[k], "token", <<>>, <<>>)]
    /\ aggregate' = [pc |-> "pending", value |-> <<>>]
    /\ UNCHANGED besideAvailability

AfterToken_Unfiltered(call, selectedCalendars) ==
    LET ids == selectedCalendarIds(selectedCalendars, call.type)
    IN IF Len(ids) = 0 THEN [call EXCEPT !.pc = "list"]
       ELSE [call EXCEPT !.pc = "query", !.ids = ids]

\* What follows the token.  In the adapter's listCalendars: the calendar
\* list.  In getAvailability: only calendars of other integrations selected:
\* [] at once; none selected: the calendar list; else the query over the
\* selected ones.
AfterToken(call, selectedCalendars) ==
    LET ids == selectedCalendarIds(selectedCalendars, call.type)
    IN IF availReq.op = "listCalendars" THEN [call EXCEPT !.pc = "list"]
       ELSE IF Len(ids) = 0 /\ Len(selectedCalendars) > 0
       THEN [call EXCEPT !.pc = "resolved", !.value = <<>>]
       ELSE IF Len(ids) = 0 THEN [call EXCEPT !.pc = "list"]
       ELSE [call EXCEPT !.pc = "query", !.ids = ids]

\* The adapter's answer to a failure inside getAvailability: Office365
\* catches it and returns Promise.reject([]), Google calls reject(err).
getAvailabilityFailed(call) == [call EXCEPT !.pc = "rejected", !.value = <<>>]

\* auth.getToken() settles.  googleAuth's refresh catches its failure and
\* resolves with the client all the same; o365Auth's rejects.
AvailabilityTokenResponds(k, ok) ==
    /\ k \in 1..Len(fan)
    /\ fan[k].pc = "token"
    /\ fan' = [fan EXCEPT ![k] = IF ok \/ fan[k].type = "google_calendar"
                                 THEN AfterToken(fan[k], availReq.selectedCalendars)
                                 ELSE getAvailabilityFailed(fan[k])]
    /\ UNCHANGED <<availReq, aggregate, besideAvailability>>

\* The calendar list answers.
CalendarListResponds(k, ok) ==
    /\ k \in 1..Len(fan)
    /\ fan[k].pc = "list"
    /\ fan' = [fan EXCEPT ![k] =
                  IF ~ok THEN getAvailabilityFailed(fan[k])
                  ELSE IF availReq.op = "listCalendars"
                  THEN [fan[k] EXCEPT !.pc = "resolved", !.value = UserCalendars(fan[k].type)]
                  ELSE [fan[k] EXCEPT !.pc = "query", !.ids = UserCalendars(fan[k].type)]]
    /\ UNCHANGED <<availReq, aggregate, besideAvailability>>

\* The busy-time query answers.
BusyQueryResponds(k, ok) ==
    /\ k \in 1..Len(fan)
    /\ fan[k].pc = "query"
    /\ fan' = [fan EXCEPT ![k] = IF ok
                                 THEN [fan[k] EXCEPT !.pc = "resolved", !.value = BusyTimes(fan[k].ids)]
                                 ELSE getAvailabilityFailed(fan[k])]
    /\ UNCHANGED <<availReq, aggregate, besideAvailability>>

RECURSIVE Flatten(_)
\* results.reduce((acc, availability) => acc.concat(availability), [])
Flatten(lists) == IF lists = <<>> THEN <<>> ELSE Head(lists) \o Flatten(Tail(lists))

\* Promise.all settles: rejected once one call has rejected, resolved with
\* the flattened lists once all have resolved.
AggregateSettles ==
    /\ aggregate.pc = "pending"
    /\ IF \E k \in 1..Len(fan) : fan[k].pc = "rejected"
       THEN aggregate' = [pc |-> "rejected", value |-> <<>>]
       ELSE /\ \A k \in 1..Len(fan) : fan[k].pc = "resolved"
            /\ aggregate' = [pc |-> "resolved",
                             value |-> Flatten([k \in 1..Len(fan) |-> fan[k].value])]
    /\ UNCHANGED <<availReq, fan, besideAvailability>>

\* The caller has the answer and no call is in flight any more.
AvailabilityEnds ==
    /\ aggregate.pc \in {"resolved", "rejected"}
    /\ InFlight = {}
    /\ availReq' = NoAvailabilityRequest
    /\ fan' = <<>>
    /\ aggregate' = NoAggregate
    /\ UNCHANGED besideAvailability

AvailabilityNext ==
    \/ getBusyCalendarTimes
    \/ listCalendars
    \/ \E k \in 1..MaxFanOut, ok \in BOOLEAN : AvailabilityTokenResponds(k, ok)
    \/ \E k \in 1..MaxFanOut, ok \in BOOLEAN : CalendarListResponds(k, ok)
    \/ \E k \in 1..MaxFanOut, ok \in BOOLEAN : BusyQueryResponds(k, ok)
    \/ AggregateSettles
    \/ AvailabilityEnds

\* The aggregator reads nothing of the booking store: one store stands for all.
AvailabilityInit ==
    /\ Init
    /\ ~hasDailyIntegration
    /\ ~db.booking

AvailabilitySpec == AvailabilityInit /\ [][AvailabilityNext]_vars

(***************************************************************************)
(* C15: in getBusyCalendarTimes over several credentials, a provider whose *)
(* getAvailability fails (transport error or token-refresh failure)        *)
(* contributes an empty busy list, and the aggregation still resolves with *)
(* the busy intervals of the other providers: it never rejects because of  *)
(* a single provider.                                                      *)
(***************************************************************************)
C15_AggregationNeverRejects ==
    (availReq.op = "getBusyCalendarTimes" /\ Len(fan) >= 2) =>
        /\ aggregate.pc # "rejected"
        /\ aggregate.pc = "resolved" =>
              aggregate.value = Flatten([k \in 1..Len(fan) |->
                                            IF fan[k].pc = "resolved" THEN fan[k].value ELSE <<>>])

(***************************************************************************)
(* C16: during the availability fan-out over any number of resolvable      *)
(* credentials, never more than 5 provider getAvailability calls are in    *)
(* flight at the same time.                                                *)
(***************************************************************************)
C16_AtMostFiveInFlight ==
    Cardinality(InFlight) <= MapLimit


(***************************************************************************)
(* C23: the registry gives an adapter to exactly the types google_calendar,*)
(* office365_calendar, caldav_calendar and apple_calendar; in the fan-outs *)
(* getBusyCalendarTimes and listCalendars the credentials of other types   *)
(* get no call and cause no error.                                         *)
(***************************************************************************)
\* Every credential type the model knows.
KnownTypes ==
    CredentialTypePool \cup AvailabilityTypePool \cup AdapterTypes \cup {FAKE_DAILY_CREDENTIAL}

RegisteredTypes ==
    {"google_calendar", "office365_calendar", "caldav_calendar", "apple_calendar"}

FanOutStarted == availReq.op \in {"getBusyCalendarTimes", "listCalendars"}

C23_RegistryAndFanOut ==
    /\ \A t \in KnownTypes : (calendars(<<t>>) = <<t>>) <=> t \in RegisteredTypes
    /\ \A t \in KnownTypes : t \notin RegisteredTypes => calendars(<<t>>) = <<>>
    /\ FanOutStarted =>
          /\ [k \in 1..Len(fan) |-> fan[k].type] =
                 SelectSeqBy(availReq.credentials, RegisteredTypes)
          /\ (\A k \in 1..Len(availReq.credentials) :
                  availReq.credentials[k] \notin RegisteredTypes)
                 => /\ fan = <<>>
                    /\ aggregate.pc \in {"pending", "resolved"}
                    /\ aggregate.value = <<>>
          /\ aggregate.pc = "rejected" => \E k \in 1..Len(fan) : fan[k].pc = "rejected"

C23_Witness ==
    /\ availReq.op = "getBusyCalendarTimes"
    /\ availReq.credentials = <<"exchange_calendar", "google_calendar">>
    /\ Len(fan) = 1
    /\ aggregate.pc = "resolved" /\ aggregate.value # <<>>


(***************************************************************************)
(* C28: a Google or Office365 getAvailability call whose selectedCalendars *)
(* is non-empty and names no calendar of the adapter's integration type    *)
(* issues neither a calendar-list call nor a busy-time query and answers   *)
(* the empty busy list once its token is there.                            *)
(***************************************************************************)
\* The entries of the filter that belong to the integration type.
EntriesOf(type) ==
    {i \in 1..Len(availReq.selectedCalendars) : availReq.selectedCalendars[i].integration = type}

\* The getAvailability calls whose filter names other integrations only.
OthersOnlyCalls ==
    {k \in 1..Len(fan) :
        /\ availReq.op = "getBusyCalendarTimes"
        /\ fan[k].type \in {"google_calendar", "office365_calendar"}
        /\ availReq.selectedCalendars # <<>>
        /\ EntriesOf(fan[k].type) = {}}

NamedIds(type) ==
    LET named == SelectSeqBy(availReq.selectedCalendars,
                             {e \in Range(availReq.selectedCalendars) :
                                 e.integration = type /\ Truthy(e.externalId)})
    IN [i \in 1..Len(named) |-> named[i].externalId]

BusyCalls ==
    {k \in 1..Len(fan) :
        /\ availReq.op = "getBusyCalendarTimes"
        /\ fan[k].type \in {"google_calendar", "office365_calendar"}}

Queried(k) == fan[k].pc = "query" \/ (fan[k].pc = "resolved" /\ fan[k].ids # <<>>)

C29_QueryCoversExactly ==
    \A k \in BusyCalls :
        /\ availReq.selectedCalendars = <<>> =>
              /\ Queried(k) => fan[k].ids = UserCalendars(fan[k].type)
              /\ fan[k].pc = "resolved" =>
                     (Queried(k) /\ fan[k].value = BusyTimes(UserCalendars(fan[k].type)))
        /\ NamedIds(fan[k].type) # <<>> =>
              /\ fan[k].pc # "list"
              /\ Queried(k) => fan[k].ids = NamedIds(fan[k].type)
              /\ fan[k].pc = "resolved" =>
                     (Queried(k) /\ fan[k].value = BusyTimes(NamedIds(fan[k].type)))

C29_Witness ==
    /\ availReq.op = "getBusyCalendarTimes"
    /\ availReq.selectedCalendars =
           <<SelectedCalendar("google_calendar", "g1"), SelectedCalendar("office365_calendar", "o1")>>
    /\ availReq.credentials = <<"google_calendar">>
    /\ aggregate.pc = "resolved"
    /\ aggregate.value = BusyTimes(<<"g1">>)


-----------------------------------------------------------------------------
\* The token refresh adapters: googleAuth and o365Auth of calendarClient.ts,
\* zoomAuth of ZoomVideoApiAdapter.ts, and the adapter operations that start
\* with auth.getToken().

\* The clock counts seconds; +new Date() counts milliseconds.
MillisPerSecond == 1000

\* How many token exchanges succeed at most, over all credentials.
MaxRefreshes == 2

\* The lifetimes (expires_in, in seconds) a token endpoint answers with.
Lifetimes == {1, 2}

\* The booking-mutation operations of an adapter (createEvent / createMeeting,
\* updateEvent / updateMeeting, deleteEvent / deleteMeeting).
MutationKinds == {"create", "update", "delete"}

\* The exchanges that succeeded so far: each one advanced a token.
RECURSIVE Exchanges(_, _)
Exchanges(k, providers) ==
    IF providers = {} THEN 0
    ELSE LET p == CHOOSE q \in providers : TRUE
         IN  k[p].access_token + Exchanges(k, providers \ {p})

\* isExpired of each adapter, on the in-memory key k at clock reading t.
\* Google asks the SDK; Office365 compares with the clock in seconds; Zoom
\* compares credentialKey.expires_in with the clock in milliseconds.
isExpired(provider, k, t) ==
    CASE provider = "google_calendar" -> k.expiring
      [] provider = "office365_calendar" -> k.expiry < t
      [] OTHER -> k.expiry < t * MillisPerSecond

\* Whether a failure inside refreshAccessToken is caught by the adapter:
\* googleAuth ends refreshAccessToken with .catch(... return myGoogleAuth);
\* o365Auth and zoomAuth have no catch.
refreshCaught(provider) == provider = "google_calendar"

\* The operations of an adapter that start with auth.getToken(): the
\* mutations, and for Zoom its getAvailability (those of the calendar adapters
\* are part of the availability aggregator).
AdapterKinds(provider) ==
    IF provider = "zoom_video" THEN MutationKinds \cup {"availability"} ELSE MutationKinds

getAvailabilityCaught_Never(provider, kind) == FALSE

\* ZoomVideoApiAdapter.getAvailability ends with .catch((err) => { ...
\* return []; }); no other operation catches.
getAvailabilityCaught(provider, kind) == provider = "zoom_video" /\ kind = "availability"

\* A step of the operation answered with an error: the operation rejects,
\* or resolves with the empty list where the error is caught.
OperationErrored(o) ==
    IF getAvailabilityCaught(o.provider, o.kind)
    THEN [o EXCEPT !.pc = "done", !.value = "empty", !.errored = TRUE]
    ELSE [o EXCEPT !.pc = "failed", !.errored = TRUE]

\* The operation once getToken resolved with access token t: the provider
\* request is issued with it.
IssueProviderCall(o, t) == [o EXCEPT !.pc = "call", !.token = t, !.called = TRUE]

\* Time passes.
Tick ==
    /\ now < MaxTime
    /\ now' = now + 1
    /\ UNCHANGED <<key, stored, operation, validUntil, besideAuth>>

\* The Google SDK starts reporting the token as expiring.
GoogleTokenExpires ==
    /\ ~key["google_calendar"].expiring
    /\ key' = [key EXCEPT !["google_calendar"].expiring = TRUE]
    /\ UNCHANGED <<now, stored, operation, validUntil, besideAuth>>

\* An adapter operation starts: auth.getToken().
AdapterOperation(provider, kind) ==
    /\ operation.pc = "idle"
    /\ LET expired == isExpired(provider, key[provider], now)
           started == [NoOperation EXCEPT !.provider = provider, !.kind = kind,
                                          !.notExpired = ~expired,
                                          !.wasValid = now < validUntil[provider]]
       IN  \/ /\ ~expired
              /\ operation' = IssueProviderCall(started, key[provider].access_token)
           \/ /\ expired
              /\ Exchanges(key, Providers) < MaxRefreshes
              /\ operation' = [started EXCEPT !.pc = "exchange", !.exchanged = TRUE]
    /\ UNCHANGED <<now, key, stored, validUntil, besideAuth>>

\* The token endpoint answers the exchange.
ExchangeResponds(ok, lifetime) ==
    /\ operation.pc = "exchange"
    /\ LET p == operation.provider
           fresh == key[p].access_token + 1
       IN  IF ok
           THEN /\ operation' = [operation EXCEPT !.pc = "write", !.token = fresh,
                                                  !.lifetime = lifetime, !.wrote = TRUE]
                /\ key' = IF p = "zoom_video" THEN key
                          ELSE [key EXCEPT ![p] = CredentialKey(fresh, now + lifetime, FALSE)]
           ELSE /\ key' = key
                /\ operation' =
                       IF refreshCaught(p)
                       THEN IssueProviderCall([operation EXCEPT !.refreshFailed = TRUE],
                                              key[p].access_token)
                       ELSE OperationErrored([operation EXCEPT !.refreshFailed = TRUE])
    /\ UNCHANGED <<now, stored, validUntil, besideAuth>>

\* prisma.credential.update answers.
CredentialWriteResponds(ok) ==
    /\ operation.pc = "write"
    /\ LET p == operation.provider
           refreshed == CredentialKey(operation.token, now + operation.lifetime, FALSE)
       IN  IF ok
           THEN /\ stored' = [stored EXCEPT ![p] =
                                 IF p = "zoom_video"
                                 THEN CredentialKey(operation.token, operation.lifetime, FALSE)
                                 ELSE key[p]]
                /\ key' = IF p = "zoom_video" THEN [key EXCEPT ![p] = refreshed] ELSE key
                /\ validUntil' = [validUntil EXCEPT ![p] =
                                     IF p = "zoom_video" THEN refreshed.expiry ELSE key[p].expiry]
                /\ operation' = IssueProviderCall([operation EXCEPT !.refreshed = TRUE],
                                                  operation.token)
           ELSE /\ UNCHANGED <<stored, key, validUntil>>
                /\ operation' =
                       IF refreshCaught(p)
                       THEN IssueProviderCall(operation, key[p].access_token)
                       ELSE OperationErrored(operation)
    /\ UNCHANGED <<now, besideAuth>>

\* The provider answers the request of the operation.
ProviderResponds(ok) ==
    /\ operation.pc = "call"
    /\ operation' = IF ok
                    THEN [operation EXCEPT !.pc = "done",
                                           !.value = IF operation.kind = "availability"
                                                     THEN "busy" ELSE "answer"]
                    ELSE OperationErrored(operation)
    /\ UNCHANGED <<now, key, stored, validUntil, besideAuth>>

\* The caller has seen the outcome.
OperationEnds ==
    /\ operation.pc \in {"done", "failed"}
    /\ operation' = NoOperation
    /\ UNCHANGED <<now, key, stored, validUntil, besideAuth>>

AuthNext ==
    \/ Tick
    \/ GoogleTokenExpires
    \/ \E provider \in Providers : \E kind \in AdapterKinds(provider) :
           AdapterOperation(provider, kind)
    \/ \E ok \in BOOLEAN, lifetime \in Lifetimes : ExchangeResponds(ok, lifetime)
    \/ \E ok \in BOOLEAN : CredentialWriteResponds(ok)
    \/ \E ok \in BOOLEAN : ProviderResponds(ok)
    \/ OperationEnds

\* The keys the credentials start with: a token that has expired or one valid
\* to the end of the run; Zoom's expires_in as the refresh leaves it.
InitialExpiries == {0, MaxTime}

AuthInit ==
    /\ InitCoordinator
    /\ ~hasDailyIntegration
    /\ ~db.booking
    /\ InitAvailability
    /\ now = Epoch
    /\ \E eo \in InitialExpiries, ez \in InitialExpiries, g \in BOOLEAN :
           key = [p \in Providers |->
                     CASE p = "google_calendar" -> CredentialKey(0, 0, g)
                       [] p = "office365_calendar" -> CredentialKey(0, eo, FALSE)
                       [] OTHER -> CredentialKey(0, ez, FALSE)]
    /\ stored = key
    /\ operation = NoOperation
    /\ validUntil = [p \in Providers |-> 0]
    /\ InitRace
    /\ InitInvite

AuthSpec == AuthInit /\ [][AuthNext]_vars

\* The adapters whose expiry the model computes from the clock.
ClockedProviders == {"office365_calendar", "zoom_video"}

\* C17: getToken on a token the adapter holds as not expired resolves with the
\* cached token, with no exchange and no credential write; and after a refresh
\* that succeeded at t with lifetime L, a getToken before t + L performs no
\* further exchange.
C17_NoExchangeWhileValid ==
    operation.pc # "idle" =>
        /\ operation.notExpired =>
               /\ ~operation.exchanged
               /\ ~operation.wrote
               /\ operation.token = key[operation.provider].access_token
        /\ (operation.provider \in ClockedProviders /\ operation.wasValid) =>
               ~operation.exchanged

\* C18: on a mutation operation whose refresh exchange failed, the provider
\* request is never issued and the operation fails.
C18_RefreshFailurePropagates ==
    (operation.kind \in MutationKinds /\ operation.refreshFailed) =>
        /\ ~operation.called
        /\ operation.pc = "failed"

\* The Zoom getAvailability operations.
ZoomAvailability == operation.provider = "zoom_video" /\ operation.kind = "availability"

\* C30: the Zoom adapter's getAvailability never rejects: after a failed
\* token refresh, a failed credential write or a failed provider request it
\* resolves with the empty busy list.
C30_ZoomAvailabilityNeverRejects ==
    ZoomAvailability =>
        /\ operation.pc # "failed"
        /\ operation.errored => (operation.pc = "done" /\ operation.value = "empty")
        /\ (operation.pc = "done" /\ ~operation.errored) => operation.value = "busy"
        /\ operation.refreshFailed => (operation.errored /\ ~operation.called)

C30_Witness ==
    /\ ZoomAvailability
    /\ operation.refreshFailed
    /\ operation.pc = "done" /\ operation.value = "empty"

\* The clock readings of a run.
ClockReadings == Epoch..MaxTime

\* C31: after a successful token refresh the persisted key and the adapter's
\* in-memory key hold the same access token and the same expiry value, so
\* that the adapter's expiry check gives the same verdict on both at every
\* clock reading.
C31_StoredKeyMatchesMemory ==
    operation.refreshed =>
        LET p == operation.provider
        IN /\ stored[p].access_token = key[p].access_token
           /\ stored[p].expiry = key[p].expiry
           /\ \A t \in ClockReadings :
                  isExpired(p, stored[p], t) = isExpired(p, key[p], t)

-----------------------------------------------------------------------------
\* Two overlapping requests on the same credential.  Each request builds its
\* own adapter on the credential it read from the store (googleAuth /
\* o365Auth / zoomAuth keep credential.key per adapter), and nothing
\* serializes their getToken calls.

\* The credential as the store holds it before the requests: expired for
\* every adapter's check.
ExpiredKey(provider) == CredentialKey(0, 0, provider = "google_calendar")

\* The providers request r may pick: that of the credential the other request
\* is working on, if it is.
SharedProvider(r) ==
    {p \in Providers :
        \A q \in Requests \ {r} :
            race[q].operation.pc = "idle" \/ race[q].operation.provider = p}

\* Request r reads the credential and calls an adapter operation:
\* auth.getToken() on the key it has read.
RequestCalls(r, provider, kind) ==
    /\ race[r].operation.pc = "idle"
    /\ provider \in SharedProvider(r)
    /\ LET memory == stored[provider]
           expired == isExpired(provider, memory, now)
           started == [NoOperation EXCEPT !.provider = provider, !.kind = kind,
                                          !.notExpired = ~expired]
       IN race' = [race EXCEPT ![r] =
                      [operation |-> IF expired
                                     THEN [started EXCEPT !.pc = "exchange", !.exchanged = TRUE]
                                     ELSE IssueProviderCall(started, memory.access_token),
                       memory |-> memory]]
    /\ UNCHANGED <<authVars, besideRace>>

\* The token endpoint answers request r's exchange; the token it issues is
\* named after the request.
RaceExchangeResponds(r, ok, lifetime) ==
    /\ race[r].operation.pc = "exchange"
    /\ LET o == race[r].operation
           p == o.provider
       IN  race' = [race EXCEPT ![r] =
              IF ok
              THEN [operation |-> [o EXCEPT !.pc = "write", !.token = r, !.lifetime = lifetime,
                                            !.wrote = TRUE],
                    memory |-> IF p = "zoom_video" THEN race[r].memory
                               ELSE CredentialKey(r, now + lifetime, FALSE)]
              ELSE [operation |-> IF refreshCaught(p)
                                  THEN IssueProviderCall([o EXCEPT !.refreshFailed = TRUE],
                                                         race[r].memory.access_token)
                                  ELSE OperationErrored([o EXCEPT !.refreshFailed = TRUE]),
                    memory |-> race[r].memory]]
    /\ UNCHANGED <<authVars, besideRace>>

\* The key request r hands to prisma.credential.update: Zoom the response
\* body, Google and Office365 the in-memory key.
WrittenKey(r) ==
    IF race[r].operation.provider = "zoom_video"
    THEN CredentialKey(race[r].operation.token, race[r].operation.lifetime, FALSE)
    ELSE race[r].memory

\* prisma.credential.update answers request r.
RaceWriteResponds(r, ok) ==
    /\ race[r].operation.pc = "write"
    /\ LET o == race[r].operation
           p == o.provider
       IN  IF ok
           THEN /\ stored' = [stored EXCEPT ![p] = WrittenKey(r)]
                /\ race' = [race EXCEPT ![r] =
                      [operation |-> IssueProviderCall([o EXCEPT !.refreshed = TRUE], o.token),
                       memory |-> IF p = "zoom_video"
                                  THEN CredentialKey(o.token, now + o.lifetime, FALSE)
                                  ELSE race[r].memory]]
           ELSE /\ stored' = stored
                /\ race' = [race EXCEPT ![r].operation =
                      IF refreshCaught(p)
                      THEN IssueProviderCall(o, race[r].memory.access_token)
                      ELSE OperationErrored(o)]
    /\ UNCHANGED <<now, key, operation, validUntil, besideRace>>

\* The provider answers request r's call.
RaceProviderResponds(r, ok) ==
    /\ race[r].operation.pc = "call"
    /\ race' = [race EXCEPT ![r].operation =
                   IF ok THEN [race[r].operation EXCEPT !.pc = "done", !.value = "answer"]
                   ELSE OperationErrored(race[r].operation)]
    /\ UNCHANGED <<authVars, besideRace>>

\* Time passes between the steps of the requests.
RaceTick ==
    /\ now < MaxTime
    /\ \E r \in Requests : race[r].operation.pc \notin {"idle", "done", "failed"}
    /\ now' = now + 1
    /\ UNCHANGED <<key, stored, operation, validUntil, race, besideRace>>

RaceNext ==
    \/ \E r \in Requests, provider \in Providers, kind \in MutationKinds :
           RequestCalls(r, provider, kind)
    \/ \E r \in Requests, ok \in BOOLEAN, lifetime \in Lifetimes :
           RaceExchangeResponds(r, ok, lifetime)
    \/ \E r \in Requests, ok \in BOOLEAN : RaceWriteResponds(r, ok)
    \/ \E r \in Requests, ok \in BOOLEAN : RaceProviderResponds(r, ok)
    \/ RaceTick

RaceInit ==
    /\ InitCoordinator
    /\ ~hasDailyIntegration
    /\ ~db.booking
    /\ InitAvailability
    /\ now = Epoch
    /\ key = [p \in Providers |-> ExpiredKey(p)]
    /\ stored = key
    /\ operation = NoOperation
    /\ validUntil = [p \in Providers |-> 0]
    /\ InitRace
    /\ InitInvite

RaceSpec == RaceInit /\ [][RaceNext]_vars

\* The key request r's successful exchange yields, as the adapter persists it.
ExchangedKey(r) ==
    IF race[r].operation.provider = "zoom_video"
    THEN CredentialKey(r, race[r].operation.lifetime, FALSE)
    ELSE CredentialKey(r, race[r].memory.expiry, FALSE)

\* C32: when two overlapping requests refresh the same expired credential,
\* a request whose token exchange is rejected ends as a failed operation
\* without calling the provider, it writes nothing to the credential store,
\* and the persisted key is the initial key or the complete key of one
\* request's successful exchange, never a mixture of two.
C32_RejectedExchangeFailsCleanly ==
    /\ \A r \in Requests :
          race[r].operation.refreshFailed =>
              /\ race[r].operation.pc = "failed"
              /\ ~race[r].operation.called
              /\ ~race[r].operation.wrote
    /\ \A p \in Providers :
          \/ stored[p] = ExpiredKey(p)
          \/ \E r \in Requests :
                /\ race[r].operation.provider = p
                /\ race[r].operation.refreshed
                /\ stored[p] = ExchangedKey(r)


-----------------------------------------------------------------------------
\* The team-invitation request handler: one request at a time, one step per
\* await of the handler.

Methods == {"POST", "GET"}
\* getSession's answers: none, a session with a user name, one without.
NoSession == [present |-> FALSE, name |-> Null]
Sessions == {NoSession, [present |-> TRUE, name |-> "Owner"], [present |-> TRUE, name |-> Null]}
TeamIds == {1, 2, 3}
IdentifierPool == {"ann", "ann@cal.io", "new@cal.io", "nobody", "bad@host"}

\* /^[^\s@]+@[^\s@]+\.[^\s@]+$/.test(str)
isEmail(str) ==
    LET n == Len(str)
        at == {i \in 1..n : SubSeq(str, i, i) = "@"}
    IN /\ Cardinality(at) = 1
       /\ \A i \in 1..n : SubSeq(str, i, i) # " "
       /\ \E i \in at : i > 1 /\ \E j \in (i + 2)..(n - 1) : SubSeq(str, j, j) = "."

\* prisma.team.findFirst({ where: { id } }): the team, or null.
NoTeam == [id |-> 0, name |-> Null]

findTeam(id) ==
    IF \E team \in Teams : team.id = id THEN CHOOSE team \in Teams : team.id = id ELSE NoTeam

NoUser == [username |-> Null, email |-> Null]

\* prisma.user.findFirst({ where: { OR: [{ username }, { email }] } }).
findInvitee(users, usernameOrEmail) ==
    LET hits == {u \in users : u.username = usernameOrEmail \/ u.email = usernameOrEmail}
    IN IF hits = {} THEN NoUser ELSE CHOOSE u \in hits : TRUE

Membership(teamId, email) == [teamId |-> teamId, user |-> email]

InvitationEmail(toEmail, teamName, withToken) ==
    [toEmail |-> toEmail, teamName |-> teamName, token |-> withToken]

\* res.status(code).json(...)
Respond(call, code) == [call EXCEPT !.pc = "responded", !.status = code]

\* An await of the handler rejects: the handler throws.
Throws(call) == [call EXCEPT !.pc = "threw"]

\* session?.user?.name && team?.name
NamesKnown(call) == call.session.name # Null /\ findTeam(call.team).name # Null

\* A request reaches the handler, which awaits getTranslation.
InviteArrives(method, session, team, usernameOrEmail, sendEmailInvitation) ==
    /\ invitation.pc = "idle"
    /\ invitation' = [NoInvitation EXCEPT !.method = method, !.session = session, !.team = team,
                                          !.usernameOrEmail = usernameOrEmail,
                                          !.sendEmailInvitation = sendEmailInvitation,
                                          !.pc = "translation"]
    /\ UNCHANGED <<teamStore, besideInvite>>

\* getTranslation resolves: if (req.method !== "POST") 400; await getSession.
MethodCheck_Skipped(call) == [call EXCEPT !.pc = "session"]

MethodCheck(call) ==
    IF call.method # "POST" THEN Respond(call, 400) ELSE [call EXCEPT !.pc = "session"]

TranslationResolves ==
    /\ invitation.pc = "translation"
    /\ invitation' = MethodCheck(invitation)
    /\ UNCHANGED <<teamStore, besideInvite>>

\* getSession resolves: if (!session) 401; await prisma.team.findFirst.
SessionResolves ==
    /\ invitation.pc = "session"
    /\ invitation' = IF ~invitation.session.present THEN Respond(invitation, 401)
                     ELSE [invitation EXCEPT !.pc = "team"]
    /\ UNCHANGED <<teamStore, besideInvite>>

\* team.findFirst resolves: if (!team) 404; await prisma.user.findFirst.
TeamResolves ==
    /\ invitation.pc = "team"
    /\ invitation' = IF findTeam(invitation.team) = NoTeam THEN Respond(invitation, 404)
                     ELSE [invitation EXCEPT !.pc = "invitee"]
    /\ UNCHANGED <<teamStore, besideInvite>>

\* user.findFirst resolves: no invitee and no email address 400, no invitee
\* and an email address user.create, an invitee membership.create.
InviteeResolves ==
    /\ invitation.pc = "invitee"
    /\ invitation' =
          IF findInvitee(teamStore.users, invitation.usernameOrEmail) # NoUser
          THEN [invitation EXCEPT !.pc = "membership"]
          ELSE IF ~isEmail(invitation.usernameOrEmail) THEN Respond(invitation, 400)
          ELSE [invitation EXCEPT !.pc = "user"]
    /\ UNCHANGED <<teamStore, besideInvite>>

\* prisma.user.create answers; .then(membership.create).
UserCreateResponds(ok) ==
    /\ invitation.pc = "user"
    /\ IF ok
       THEN /\ teamStore' = [teamStore EXCEPT !.users =
                                @ \cup {[username |-> Null, email |-> invitation.usernameOrEmail]}]
            /\ invitation' = [invitation EXCEPT !.pc = "new_membership"]
       ELSE /\ invitation' = Throws(invitation)
            /\ UNCHANGED teamStore
    /\ UNCHANGED besideInvite

\* The new user's membership.create answers; await verificationRequest.create.
NewMembershipResponds(ok) ==
    /\ invitation.pc = "new_membership"
    /\ IF ok
       THEN /\ teamStore' = [teamStore EXCEPT !.memberships =
                                @ \cup {Membership(invitation.team, invitation.usernameOrEmail)}]
            /\ invitation' = [invitation EXCEPT !.pc = "verification"]
       ELSE /\ invitation' = Throws(invitation)
            /\ UNCHANGED teamStore
    /\ UNCHANGED besideInvite

\* verificationRequest.create answers; the invitation mail with the token
\* goes out when both names are known; 201.
VerificationResponds(ok) ==
    /\ invitation.pc = "verification"
    /\ IF ok
       THEN /\ teamStore' =
                  [teamStore EXCEPT
                      !.verificationRequests = @ \cup {invitation.usernameOrEmail},
                      !.emails = IF NamesKnown(invitation)
                                 THEN @ \cup {InvitationEmail(invitation.usernameOrEmail,
                                                              findTeam(invitation.team).name, TRUE)}
                                 ELSE @]
            /\ invitation' = Respond(invitation, 201)
       ELSE /\ invitation' = Throws(invitation)
            /\ UNCHANGED teamStore
    /\ UNCHANGED besideInvite

\* The invitee's membership.create answers: P2002 (the membership is there
\* already) 409, another failure is rethrown, else the mail when asked for, 201.
MembershipResponds(ok) ==
    /\ invitation.pc = "membership"
    /\ LET invitee == findInvitee(teamStore.users, invitation.usernameOrEmail)
           membership == Membership(invitation.team, invitee.email)
       IN IF membership \in teamStore.memberships
          THEN /\ invitation' = Respond(invitation, 409)
               /\ UNCHANGED teamStore
          ELSE IF ~ok
          THEN /\ invitation' = Throws(invitation)
               /\ UNCHANGED teamStore
          ELSE /\ teamStore' =
                     [teamStore EXCEPT
                         !.memberships = @ \cup {membership},
                         !.emails = IF invitation.sendEmailInvitation /\ NamesKnown(invitation)
                                    THEN @ \cup {InvitationEmail(invitee.email,
                                                                 findTeam(invitation.team).name, FALSE)}
                                    ELSE @]
               /\ invitation' = Respond(invitation, 201)
    /\ UNCHANGED besideInvite

\* The handler has responded, or thrown: the request is over.
InviteEnds ==
    /\ invitation.pc \in {"responded", "threw"}
    /\ invitation' = NoInvitation
    /\ UNCHANGED <<teamStore, besideInvite>>

InviteNext ==
    \/ /\ invitation.pc = "idle"
       /\ \E method \in Methods, session \in Sessions, team \in TeamIds,
             usernameOrEmail \in IdentifierPool, sendEmailInvitation \in BOOLEAN :
             InviteArrives(method, session, team, usernameOrEmail, sendEmailInvitation)
    \/ TranslationResolves
    \/ SessionResolves
    \/ TeamResolves
    \/ InviteeResolves
    \/ \E ok \in BOOLEAN : UserCreateResponds(ok)
    \/ \E ok \in BOOLEAN : NewMembershipResponds(ok)
    \/ \E ok \in BOOLEAN : VerificationResponds(ok)
    \/ \E ok \in BOOLEAN : MembershipResponds(ok)
    \/ InviteEnds

InviteInit ==
    /\ InitCoordinator
    /\ ~hasDailyIntegration
    /\ ~db.booking
    /\ InitAvailability
    /\ InitAuth
    /\ now = Epoch
    /\ InitRace
    /\ InitInvite

InviteSpec == InviteInit /\ [][InviteNext]_vars

\* The request is a POST, has a session, and its team id resolves to a team.
Admitted(call) ==
    call.method = "POST" /\ call.session.present /\ findTeam(call.team) # NoTeam

RefusalStatus(call) ==
    IF call.method # "POST" THEN 400 ELSE IF ~call.session.present THEN 401 ELSE 404

\* C37: unless the request is a POST, a session exists and the team id
\* resolves to an existing team, the invitation handler writes no user,
\* membership or verification request and sends no invitation mail; it
\* responds 400, 401 or 404 respectively and leaves the store as it was.
C37_NoWriteUnlessAdmitted ==
    /\ [](  (invitation.pc # "idle" /\ ~Admitted(invitation))
          => /\ invitation.pc \in {"translation", "session", "team", "responded"}
             /\ invitation.pc = "responded" => invitation.status = RefusalStatus(invitation))
    /\ [][ (invitation.pc # "idle" /\ ~Admitted(invitation)) => teamStore' = teamStore ]_vars

C37_Witness ==
    /\ invitation.pc = "responded"
    /\ invitation.method = "POST" /\ invitation.session.present
    /\ findTeam(invitation.team) = NoTeam
    /\ invitation.status = 404
    /\ isEmail(invitation.usernameOrEmail)
    /\ teamStore.memberships # {} /\ teamStore.emails # {}
=============================================================================
